---- MODULE Spec2Model ----
(***************************************************************************)
(* A model of the confidential-transaction core of navio-core:             *)
(*   - blsct::TxFactoryBase (AddInput, AddOutput, BuildTx)                  *)
(*   - blsct::VerifyTx                                                      *)
(*   - bulletproofs::RangeProofLogic (Prove, Verify, VerifyProofs)          *)
(* Each part has its own variables and its own specification; the          *)
(* variables of the other parts stay at their idle values.                 *)
(***************************************************************************)
EXTENDS Integers, Sequences, FiniteSets, TLC

(***************************************************************************)
(* Bounds of the model.                                                    *)
(***************************************************************************)
MaxInputs == 2      \* AddInput calls on one factory
MaxOutputs == 2     \* AddOutput calls on one factory
MaxVin == 2         \* inputs of a transaction given to VerifyTx
MaxVout == 2        \* outputs of a transaction given to VerifyTx
MaxValues == 3      \* values given to one call of Prove
MaxAttempts == 2    \* passes of Prove through its retry label
MaxProofs == 3      \* proofs given to one call of VerifyProofs
MaxRequests == 3    \* requests given to one call of RecoverAmounts
MaxCandidates == 2  \* input candidates given to one call of CreateTransaction
MaxYs == 3          \* elements of the list given to one call of ExtendYs
SetupN == 4         \* setup.N: elements of the largest list a set-membership proof is made for

(***************************************************************************)
(* Part 1: TxFactoryBase                                                   *)
(***************************************************************************)
VARIABLES
    nAmounts,   \* std::map<TokenId, Amounts>: per token [has, nFromOutputs, nFromInputs]
    vInputs,    \* std::map<TokenId, std::vector<UnsignedInput>>
    vOutputs,   \* std::map<TokenId, std::vector<UnsignedOutput>>
    bpc,        \* position of the caller: "idle", "loop" (inside BuildTx's while), "done"
    btype,      \* the CreateTransactionType BuildTx was called with
    thisTx,     \* this->tx: the outputs emitted before the loop (lines 65-71)
    nFee,       \* BuildTx's local nFee: the fee assumed by the current iteration
    feesTried,  \* history: the values nFee had at the start of the earlier iterations
    result,     \* what BuildTx returned: [ok |-> FALSE] is std::nullopt
    prevBuilt   \* history: what the last BuildTx returned, and its type, while the
                \* accumulator has not been added to since

txVars == <<nAmounts, vInputs, vOutputs, bpc, btype, thisTx, nFee, feesTried, result,
            prevBuilt>>

\* the state of a run of blsct::VerifyTx (part 2)
VARIABLES
    vtx,         \* the call: the transaction, what the view answers, blockReward
    vpc,         \* position in VerifyTx: "idle", "start", "inputs", "outputs", "sig", "rp", "done"
    vidx,        \* index of the input or output the loop is at
    vPairs,      \* vPubKeys and vMessages, kept as one list of (pk, msg) pairs
    vProofs,     \* vProofs
    balanceKey,  \* balanceKey
    vnFee,       \* nFee
    vreasons,    \* the reject reasons given to state.Invalid, in order
    vres,        \* the value returned: "none" (still running), "true", "false"
    vlog         \* history: the checks and folds executed, in order

verifyVars == <<vtx, vpc, vidx, vPairs, vProofs, balanceKey, vnFee, vreasons, vres, vlog>>

\* the state of a call of RangeProofLogic::Prove followed by Verify (part 3)
VARIABLES
    rpIn,         \* the call: vs, nonce, message, minValue
    rpc,          \* position: "idle", "start", "retry", "y", "z", "x", "c_factor", "ipa",
                  \* "proved", "verified", "thrown", "fault"
    attempt,      \* the number of passes through the retry label
    fiat_shamir,  \* HashWriter fiat_shamir: everything fed to it, in order
    oracle,       \* the hash values given so far, by hasher state
    chal,         \* the challenges y, z, x, c_factor of the current pass
    proof,        \* RangeProof<T> proof
    rpres         \* what Verify returned: "none", "true", "false"

rpVars == <<rpIn, rpc, attempt, fiat_shamir, oracle, chal, proof, rpres>>

\* the state of a call of RangeProofLogic::VerifyProofs (part 4)
VARIABLES
    vbBatch,    \* proof_transcripts, each proof by what its task will find
    vbc,        \* the calling thread: "idle", "launch", "collect", "return", "returned"
    vbIdx,      \* the proof the launching loop, or the future the collecting loop, is at
    vbTask,     \* per proof, its task: "none" (not launched), "running", "done"
    vbRet,      \* per proof, the value its task returned: "none", "true", "false"
    vbPending,  \* the value of the return statement that was reached
    vbRes,      \* the value the call returned: "none", "true", "false"
    vbOrder,    \* history: the tasks in the order they finished
    vbWaited    \* history: the tasks still running when the return statement was reached

vbVars == <<vbBatch, vbc, vbIdx, vbTask, vbRet, vbPending, vbRes, vbOrder, vbWaited>>

\* the state of a call of RangeProofLogic::RecoverAmounts (part 5)
VARIABLES
    rcReqs,     \* reqs
    rcc,        \* the call: "idle", "called", "returned"
    rcOut       \* how the call ended, and the AmountRecoveryResult it returned

rcVars == <<rcReqs, rcc, rcOut>>

\* the state of a call of TxFactoryBase::CreateTransaction (part 6); its local
\* factory and the BuildTx it ends with use the variables of part 1
VARIABLES
    ctIn,       \* the call: inputCandidates, nAmount, type, minStake
    ctc,        \* the call: "idle", "called", "building", "returned", "thrown"
    ctOut       \* how the call ended: a transaction, std::nullopt or an exception

ctVars == <<ctIn, ctc, ctOut>>

\* the state of a call of SetMemProofProver::ExtendYs, and of a call of Prove
\* followed by Verify (part 7)
VARIABLES
    exIn,       \* the call of ExtendYs: ys and the new size
    exc,        \* the call of ExtendYs: "idle", "called", "returned", "thrown"
    exOut,      \* what ExtendYs returned
    smIn,       \* the arguments of Prove and those of Verify
    smc,        \* "idle", "called", "proved", "verified", "thrown"
    smProof,    \* the proof Prove returned
    smRes       \* what Verify returned: "none", "true", "false"

smVars == <<exIn, exc, exOut, smIn, smc, smProof, smRes>>

\* what the actions of each part leave alone
notTx == <<verifyVars, rpVars, vbVars, rcVars, ctVars, smVars>>
notVerify == <<txVars, rpVars, vbVars, rcVars, ctVars, smVars>>
notRp == <<txVars, verifyVars, vbVars, rcVars, ctVars, smVars>>
notVp == <<txVars, verifyVars, rpVars, rcVars, ctVars, smVars>>
notRc == <<txVars, verifyVars, rpVars, vbVars, ctVars, smVars>>
notCt == <<verifyVars, rpVars, vbVars, rcVars, smVars>>
notEx == <<txVars, verifyVars, rpVars, vbVars, rcVars, ctVars, smIn, smc, smProof, smRes>>
notSm == <<txVars, verifyVars, rpVars, vbVars, rcVars, ctVars, exIn, exc, exOut>>

\* TokenId() is the base token; std::map iterates its keys in ascending order.
BaseToken == 0
Tokens == {0, 1}
TokenOrder == <<0, 1>>

InputValues == {2, 4, 8}
OutputAmounts == {2}
TxTypes == {"NORMAL", "STAKED_COMMITMENT", "STAKED_COMMITMENT_UNSTAKE"}

\* Fee per weight unit, and the weight of a transaction as a function of its
\* number of inputs and outputs (GetTransactionWeight and
\* GetTransactioOutputWeight are outside the sources; any function monotone in
\* both counts is meant).
BLSCT_DEFAULT_FEE == 1
WeightPerInput == 1
WeightPerOutput == 1

GetTransactioOutputWeight == WeightPerOutput

GetTransactionWeight(tx) ==
    WeightPerInput * Len(tx.vin) + WeightPerOutput * Len(tx.vout)

NoResult == [ok |-> FALSE, vin |-> <<>>, vout |-> <<>>]
NoPrevBuilt == [called |-> FALSE, ok |-> FALSE, type |-> "NORMAL", vin |-> <<>>]
EmptyTx == [vin |-> <<>>, vout |-> <<>>]

IsStakingType(type) ==
    type = "STAKED_COMMITMENT_UNSTAKE" \/ type = "STAKED_COMMITMENT"

TxInit ==
    /\ nAmounts = [t \in Tokens |-> [has |-> FALSE, nFromOutputs |-> 0, nFromInputs |-> 0]]
    /\ vInputs = [t \in Tokens |-> <<>>]
    /\ vOutputs = [t \in Tokens |-> <<>>]
    /\ bpc = "idle"
    /\ btype = "NORMAL"
    /\ thisTx = EmptyTx
    /\ nFee = 0
    /\ feesTried = {}
    /\ result = NoResult
    /\ prevBuilt = NoPrevBuilt

RECURSIVE SumField(_, _)
\* the sum of the values (amounts) of the entries of s that belong to token t
SumField(s, t) ==
    IF s = <<>> THEN 0
    ELSE (IF Head(s).token = t THEN Head(s).value ELSE 0) + SumField(Tail(s), t)

NumInputs == Len(vInputs[0]) + Len(vInputs[1])
NumOutputs == Len(vOutputs[0]) + Len(vOutputs[1])

\* nAmounts[token_id] after "if (count == 0) nAmounts[token_id] = {0, 0}"
Touched(t) == [nAmounts[t] EXCEPT !.has = TRUE]

AddOutputFullAmount(token_id, nAmount, type, fSubtractFeeFromAmount) ==
    /\ UNCHANGED notTx
    /\ bpc = "idle"
    /\ NumOutputs < MaxOutputs
    /\ LET fee == IF fSubtractFeeFromAmount
                  THEN GetTransactioOutputWeight * BLSCT_DEFAULT_FEE
                  ELSE 0
           out == [kind |-> "out", token |-> token_id, value |-> nAmount - fee,
                   staked |-> (type = "STAKED_COMMITMENT")]
       IN /\ nAmounts' = [nAmounts EXCEPT ![token_id] =
                             [Touched(token_id) EXCEPT !.nFromOutputs = @ + nAmount]]
          /\ vOutputs' = [vOutputs EXCEPT ![token_id] = Append(@, out)]
    /\ prevBuilt' = NoPrevBuilt
    /\ UNCHANGED <<vInputs, bpc, btype, thisTx, nFee, feesTried, result>>

\* TxFactoryBase::AddOutput
AddOutput(token_id, nAmount, type, fSubtractFeeFromAmount) ==
    /\ UNCHANGED notTx
    /\ bpc = "idle"
    /\ NumOutputs < MaxOutputs
    /\ LET fee == IF fSubtractFeeFromAmount
                  THEN GetTransactioOutputWeight * BLSCT_DEFAULT_FEE
                  ELSE 0
           out == [kind |-> "out", token |-> token_id, value |-> nAmount - fee,
                   staked |-> (type = "STAKED_COMMITMENT")]
       IN /\ nAmounts' = [nAmounts EXCEPT ![token_id] =
                             [Touched(token_id) EXCEPT
                                 !.nFromOutputs = @ + (nAmount - fee)]]
          /\ vOutputs' = [vOutputs EXCEPT ![token_id] = Append(@, out)]
    /\ prevBuilt' = NoPrevBuilt
    /\ UNCHANGED <<vInputs, bpc, btype, thisTx, nFee, feesTried, result>>

\* TxFactoryBase::AddInput
AddInput(amount, token_id, stakedCommitment) ==
    /\ UNCHANGED notTx
    /\ bpc = "idle"
    /\ NumInputs < MaxInputs
    /\ vInputs' = [vInputs EXCEPT ![token_id] =
                      Append(@, [token |-> token_id, value |-> amount,
                                 is_staked_commitment |-> stakedCommitment])]
    /\ nAmounts' = [nAmounts EXCEPT ![token_id] =
                       [Touched(token_id) EXCEPT !.nFromInputs = @ + amount]]
    /\ prevBuilt' = NoPrevBuilt
    /\ UNCHANGED <<vOutputs, bpc, btype, thisTx, nFee, feesTried, result>>

RECURSIVE ConcatOutputs(_)
\* lines 65-71: every queued output, token by token
ConcatOutputs(order) ==
    IF order = <<>> THEN <<>>
    ELSE vOutputs[Head(order)] \o ConcatOutputs(Tail(order))

BuildTxStartClears(type) ==
    /\ UNCHANGED notTx
    /\ bpc = "idle"
    /\ bpc' = "loop"
    /\ btype' = type
    /\ thisTx' = [vin |-> <<>>, vout |-> ConcatOutputs(TokenOrder)]
    /\ nFee' = 0
    /\ feesTried' = {}
    /\ result' = NoResult
    /\ vOutputs' = [t \in Tokens |-> <<>>]
    /\ UNCHANGED <<nAmounts, vInputs, prevBuilt>>

\* TxFactoryBase::BuildTx, up to the while loop
BuildTxStart(type) ==
    /\ UNCHANGED notTx
    /\ bpc = "idle"
    /\ bpc' = "loop"
    /\ btype' = type
    /\ thisTx' = [vin |-> <<>>, vout |-> ConcatOutputs(TokenOrder)]
    /\ nFee' = 0
    /\ feesTried' = {}
    /\ result' = NoResult
    /\ UNCHANGED <<nAmounts, vInputs, vOutputs, prevBuilt>>

RECURSIVE TakeFrom(_, _, _, _, _)
\* The inner loop of lines 84-96 (wantStaked) and 101-113 (not wantStaked) over
\* the inputs of one token: push the input, add its value, break once the
\* running total exceeds the limit.
TakeFrom(ins, i, wantStaked, total, limit) ==
    IF i > Len(ins) THEN [taken |-> <<>>, total |-> total]
    ELSE IF ins[i].is_staked_commitment # wantStaked
         THEN TakeFrom(ins, i + 1, wantStaked, total, limit)
    ELSE IF total + ins[i].value > limit
         THEN [taken |-> <<ins[i]>>, total |-> total + ins[i].value]
    ELSE LET r == TakeFrom(ins, i + 1, wantStaked, total + ins[i].value, limit)
         IN [taken |-> <<ins[i]>> \o r.taken, total |-> r.total]

\* the limit of lines 95 and 112: the fee is added for every token
OwedLimit(t, fee) == nAmounts[t].nFromOutputs + fee

StakedPassAnyType(t, type, fee) ==
    TakeFrom(vInputs[t], 1, TRUE, 0, OwedLimit(t, fee))

\* lines 82-98: the staked pass over the inputs of token t, for the staking types
StakedPass(t, type, fee) ==
    IF IsStakingType(type)
    THEN TakeFrom(vInputs[t], 1, TRUE, 0, OwedLimit(t, fee))
    ELSE [taken |-> <<>>, total |-> 0]

PlainPass(t, type, fee) ==
    TakeFrom(vInputs[t], 1, FALSE, StakedPass(t, type, fee).total, OwedLimit(t, fee))

RECURSIVE ConcatTaken(_, _, _, _)
ConcatTaken(order, type, fee, staked) ==
    IF order = <<>> THEN <<>>
    ELSE (IF staked THEN StakedPass(Head(order), type, fee).taken
                    ELSE PlainPass(Head(order), type, fee).taken)
         \o ConcatTaken(Tail(order), type, fee, staked)

\* tx.vin after lines 82-114: the staked pass for every token, then the plain pass
SelectedInputs(type, fee) ==
    ConcatTaken(TokenOrder, type, fee, TRUE) \o ConcatTaken(TokenOrder, type, fee, FALSE)

\* mapInputs after lines 82-114 (0 for a token no input was taken of)
MapInputs(type, fee) == [t \in Tokens |-> PlainPass(t, type, fee).total]

\* line 117
TokenFee(t, fee) == IF t = BaseToken THEN fee ELSE 0

\* line 121: some token of nAmounts is short
InsufficientFunds(type, fee) ==
    \E t \in Tokens :
        /\ nAmounts[t].has
        /\ MapInputs(type, fee)[t] < nAmounts[t].nFromOutputs + TokenFee(t, fee)

ChangeNoFee(t, type, fee) == MapInputs(type, fee)[t] - nAmounts[t].nFromOutputs

\* line 123: mapChange[token]
ChangeOf(t, type, fee) ==
    MapInputs(type, fee)[t] - nAmounts[t].nFromOutputs - TokenFee(t, fee)

RECURSIVE ChangeOutputsKeepZero(_, _, _)
ChangeOutputsKeepZero(order, type, fee) ==
    IF order = <<>> THEN <<>>
    ELSE (IF nAmounts[Head(order)].has
          THEN <<[kind |-> "change", token |-> Head(order),
                  value |-> ChangeOf(Head(order), type, fee), staked |-> FALSE]>>
          ELSE <<>>)
         \o ChangeOutputsKeepZero(Tail(order), type, fee)

RECURSIVE ChangeOutputs(_, _, _)
\* lines 126-135: one change output per token of nAmounts with a nonzero change
ChangeOutputs(order, type, fee) ==
    IF order = <<>> THEN <<>>
    ELSE (IF nAmounts[Head(order)].has /\ ChangeOf(Head(order), type, fee) # 0
          THEN <<[kind |-> "change", token |-> Head(order),
                  value |-> ChangeOf(Head(order), type, fee), staked |-> FALSE]>>
          ELSE <<>>)
         \o ChangeOutputs(Tail(order), type, fee)

\* the local tx of one iteration, just before line 137
IterationTx(type, fee) ==
    [vin |-> SelectedInputs(type, fee),
     vout |-> thisTx.vout \o ChangeOutputs(TokenOrder, type, fee)]

ComputedFeeWithMarker(type, fee) ==
    (GetTransactionWeight(IterationTx(type, fee)) + WeightPerOutput) * BLSCT_DEFAULT_FEE

\* lines 137 and 147
ComputedFee(type, fee) == GetTransactionWeight(IterationTx(type, fee)) * BLSCT_DEFAULT_FEE

FeeOutput(fee) == [kind |-> "fee", token |-> BaseToken, value |-> fee, staked |-> FALSE]

\* One iteration of the while loop of BuildTx (lines 73-148).
BuildTxIterate ==
    /\ UNCHANGED notTx
    /\ bpc = "loop"
    /\ IF InsufficientFunds(btype, nFee)
       THEN /\ result' = NoResult
            /\ bpc' = "done"
            /\ UNCHANGED <<nFee, feesTried>>
       ELSE IF nFee = ComputedFee(btype, nFee)
       THEN /\ result' = [ok |-> TRUE,
                          vin |-> IterationTx(btype, nFee).vin,
                          vout |-> Append(IterationTx(btype, nFee).vout, FeeOutput(nFee))]
            /\ bpc' = "done"
            /\ UNCHANGED <<nFee, feesTried>>
       ELSE /\ nFee' = ComputedFee(btype, nFee)
            /\ feesTried' = feesTried \cup {nFee}
            /\ UNCHANGED <<result, bpc>>
    /\ UNCHANGED <<nAmounts, vInputs, vOutputs, btype, thisTx, prevBuilt>>

\* the caller drops the returned optional and goes on using the factory
DropResult ==
    /\ UNCHANGED notTx
    /\ bpc = "done"
    /\ bpc' = "idle"
    /\ result' = NoResult
    /\ nFee' = 0
    /\ feesTried' = {}
    /\ thisTx' = EmptyTx
    /\ btype' = "NORMAL"
    /\ prevBuilt' = [called |-> TRUE, ok |-> result.ok, type |-> btype, vin |-> result.vin]
    /\ UNCHANGED <<nAmounts, vInputs, vOutputs>>

(***************************************************************************)
(* Claims about TxFactoryBase                                              *)
(***************************************************************************)
RECURSIVE SumKind(_, _, _)
\* the sum of the values of the outputs of one kind and one token
SumKind(s, kind, t) ==
    IF s = <<>> THEN 0
    ELSE (IF Head(s).kind = kind /\ Head(s).token = t THEN Head(s).value ELSE 0)
         + SumKind(Tail(s), kind, t)

\* the fee a returned transaction pays: the value of its fee-marker output
FeePaid(r) == SumKind(r.vout, "fee", BaseToken)

Returned == bpc = "done" /\ result.ok

\* C1 as stated: after a successful BuildTx, for every token of the accumulator,
\* the values of the inputs placed in the transaction sum to the requested output
\* values, plus the fee for the base token.
C1_InputsEqualOutputsPlusFee ==
    Returned =>
        \A t \in Tokens :
            nAmounts[t].has =>
                SumField(result.vin, t)
                    = SumField(vOutputs[t], t) + TokenFee(t, FeePaid(result))

\* C1 amended: after a successful BuildTx, for every token of the accumulator,
\* the values of the inputs placed in the transaction sum to the requested output
\* values, plus the value of the token's change output (if any), plus the fee
\* for the base token; and the transaction holds the requested outputs.
C1_InputsEqualOutputsChangeFee ==
    Returned =>
        \A t \in Tokens :
            nAmounts[t].has =>
                /\ SumKind(result.vout, "out", t) = SumField(vOutputs[t], t)
                /\ SumField(result.vin, t)
                       = SumField(vOutputs[t], t)
                         + SumKind(result.vout, "change", t)
                         + TokenFee(t, FeePaid(result))

\* a transaction was returned that spends both tokens, pays a fee and gives
\* change of the base token
C1_Witness ==
    /\ Returned
    /\ nAmounts[0].has /\ nAmounts[1].has
    /\ FeePaid(result) > 0
    /\ SumKind(result.vout, "change", BaseToken) > 0
    /\ SumField(result.vin, 1) > 0
    /\ SumField(vOutputs[0], 0) > 0

\* C2: if for any token the inputs added with AddInput total less than the
\* outputs added with AddOutput (plus the fee for the base token), BuildTx
\* returns no transaction.  Stated on the outcome: a returned transaction means
\* every token's added inputs cover its added outputs, and the base token's cover
\* the fee the transaction pays as well.
C2_ShortTokenNoTransaction ==
    Returned =>
        \A t \in Tokens :
            SumField(vInputs[t], t)
                >= SumField(vOutputs[t], t) + TokenFee(t, FeePaid(result))

\* C3: the fee loop of BuildTx never alternates between fee values: no
\* iteration starts with a fee an earlier iteration of the same call assumed.
\* An iteration is a function of the assumed fee alone (the accumulator does not
\* change during BuildTx), so a fee assumed twice is assumed forever after.
C3_NoFeeAssumedTwice ==
    bpc = "loop" => nFee \notin feesTried

\* what one step does to the accumulator
AccumulatorFrame ==
    /\ (bpc # "idle" \/ bpc' # "idle") => UNCHANGED <<nAmounts, vInputs, vOutputs>>
    /\ vInputs' # vInputs
          => /\ vOutputs' = vOutputs
             /\ \A t \in Tokens : nAmounts'[t].nFromOutputs = nAmounts[t].nFromOutputs
    /\ vOutputs' # vOutputs
          => /\ vInputs' = vInputs
             /\ \A t \in Tokens : nAmounts'[t].nFromInputs = nAmounts[t].nFromInputs
    /\ nAmounts' # nAmounts => (vInputs' # vInputs \/ vOutputs' # vOutputs)

\* a BuildTx that follows one of the same type, nothing added in between, ends
\* as that one did and with the same inputs
SameSelection ==
    (bpc = "done" /\ prevBuilt.called /\ prevBuilt.type = btype)
        => (result.ok = prevBuilt.ok /\ result.vin = prevBuilt.vin)

\* C16: the accumulator (nAmounts, vInputs, vOutputs) is changed only by
\* AddInput and AddOutput: no step of BuildTx changes any of the three, whether
\* it returns a transaction or nothing; AddInput leaves the output totals and
\* vOutputs as they are, AddOutput the input totals and vInputs; and two
\* successive calls of BuildTx on the same accumulator select the same inputs.
C16_AccumulatorFrame ==
    [][AccumulatorFrame]_txVars /\ []SameSelection

\* a second BuildTx on the same accumulator has returned a transaction
C16_Witness ==
    /\ Returned
    /\ prevBuilt.called
    /\ prevBuilt.ok
    /\ prevBuilt.type = btype
    /\ result.vin # <<>>

\* the inputs of token t in vin that are (are not) staked commitments, in order
InputsOf(vin, t, staked) ==
    SelectSeq(vin, LAMBDA e : e.token = t /\ e.is_staked_commitment = staked)

\* the amount owed for token t: its requested outputs, plus the fee for the
\* base token only
AmountOwed(t, fee) == nAmounts[t].nFromOutputs + TokenFee(t, fee)

\* the last entry of ins was needed to bring the total from `before` to owed
LastNeeded(ins, t, before, owed) ==
    ins # <<>> => before + SumField(ins, t) - ins[Len(ins)].value < owed

\* C23: in the iteration that returns, for every token the non-staked inputs are
\* consumed in insertion order only up to the amount owed: no consumed input is
\* unnecessary (without the last consumed one the total is below the amount
\* owed), and none is consumed for a token whose amount owed is already covered.
C23_PlainInputsOnlyAsOwed ==
    Returned =>
        \A t \in Tokens :
            LastNeeded(InputsOf(result.vin, t, FALSE), t,
                       SumField(InputsOf(result.vin, t, TRUE), t),
                       AmountOwed(t, FeePaid(result)))

\* what the selection does give: the consumed non-staked inputs of a token are
\* a prefix of its non-staked inputs in insertion order
PlainInputsArePrefix ==
    Returned =>
        \A t \in Tokens :
            LET plain == InputsOf(result.vin, t, FALSE)
            IN plain = SubSeq(InputsOf(vInputs[t], t, FALSE), 1, Len(plain))

\* every staked-commitment input of vin precedes every other input
StakedFirst(vin) ==
    \A i, j \in 1..Len(vin) :
        (vin[i].is_staked_commitment /\ ~vin[j].is_staked_commitment) => i < j

\* C24: for the types STAKED_COMMITMENT and STAKED_COMMITMENT_UNSTAKE, in the
\* inputs of the built transaction every staked-commitment input precedes every
\* non-staked input, and the staked inputs of a token are consumed only up to
\* the amount owed for that token.
C24_StakedFirstOnlyAsOwed ==
    (Returned /\ IsStakingType(btype)) =>
        /\ StakedFirst(result.vin)
        /\ \A t \in Tokens :
               LastNeeded(InputsOf(result.vin, t, TRUE), t, 0,
                          AmountOwed(t, FeePaid(result)))

\* the order alone
StakedInputsComeFirst ==
    (Returned /\ IsStakingType(btype)) => StakedFirst(result.vin)

\* the outputs of one kind and one token in vout
OutputsOf(vout, kind, t) ==
    SelectSeq(vout, LAMBDA o : o.kind = kind /\ o.token = t)

\* what the consumed inputs of token t exceed its requested outputs and its fee
\* share by, in the returned transaction
Excess(t) ==
    SumField(result.vin, t) - nAmounts[t].nFromOutputs - TokenFee(t, FeePaid(result))

\* C25: a returned transaction contains, for each token, exactly one change
\* output when the consumed inputs of the token exceed the requested outputs
\* plus the token's fee share, with value equal to that excess, and none when
\* the excess is zero; no change output of an abandoned iteration remains: the
\* outputs are the queued ones, the change outputs of the last iteration and the
\* fee marker.
C25_OneChangePerExcess ==
    Returned =>
        /\ \A t \in Tokens :
               LET change == OutputsOf(result.vout, "change", t)
               IN /\ Excess(t) > 0 => (Len(change) = 1 /\ change[1].value = Excess(t))
                  /\ Excess(t) = 0 => change = <<>>
        /\ \A k \in 1..Len(result.vout) :
               result.vout[k].kind = "change" => Excess(result.vout[k].token) > 0
        /\ SubSeq(result.vout, 1, Len(thisTx.vout)) = thisTx.vout

\* a transaction returned after an abandoned iteration that had other change
\* outputs, with change of one token and none of the other, whose inputs were
\* consumed exactly
C25_Witness ==
    /\ Returned
    /\ 0 \in feesTried
    /\ ChangeOutputs(TokenOrder, btype, 0) # ChangeOutputs(TokenOrder, btype, nFee)
    /\ \E t \in Tokens : Excess(t) > 0
    /\ \E t \in Tokens : Excess(t) = 0 /\ SumField(result.vin, t) > 0

\* C26: a returned transaction has exactly one fee-marker output, it is the
\* last output, and its value is the fee assumed when inputs and change were
\* selected, which is BLSCT_DEFAULT_FEE times the weight of the transaction as
\* it stood just before the fee marker was appended.
C26_OneFeeMarkerLast ==
    Returned =>
        LET n == Len(result.vout)
            before == [vin |-> result.vin, vout |-> SubSeq(result.vout, 1, n - 1)]
        IN /\ n >= 1
           /\ result.vout[n].kind = "fee"
           /\ \A k \in 1..(n - 1) : result.vout[k].kind # "fee"
           /\ result.vout[n].value = nFee
           /\ before = IterationTx(btype, nFee)
           /\ nFee = BLSCT_DEFAULT_FEE * GetTransactionWeight(before)

\* a transaction returned after the fee was revised twice, with a change output
C26_Witness ==
    /\ Returned
    /\ Cardinality(feesTried) >= 2
    /\ nFee > 0
    /\ \E k \in 1..Len(result.vout) : result.vout[k].kind = "change"

\* C27: after any sequence of AddInput and AddOutput calls, for every token the
\* accumulated output total is the sum of the amounts placed in the token's
\* queued outputs (an output reduced by the subtract-fee estimate included) and
\* the accumulated input total is the sum of the values of its queued inputs.
C27_TotalsMatchQueues ==
    \A t \in Tokens :
        /\ nAmounts[t].nFromOutputs = SumField(vOutputs[t], t)
        /\ nAmounts[t].nFromInputs = SumField(vInputs[t], t)
        /\ \A k \in 1..Len(vOutputs[t]) :
               vOutputs[t][k].value
                   \in {a - f : a \in OutputAmounts,
                                f \in {0, GetTransactioOutputWeight * BLSCT_DEFAULT_FEE}}

\* a token with an output reduced by the fee estimate, a full output and an
\* input; the other token with an input
C27_Witness ==
    /\ bpc = "idle"
    /\ \E t \in Tokens :
           /\ Len(vOutputs[t]) = 2
           /\ vOutputs[t][1].value # vOutputs[t][2].value
           /\ vInputs[t] # <<>>
           /\ vInputs[1 - t] # <<>>

\* C29: a staked-commitment input is never spent by a transaction of a type
\* other than STAKED_COMMITMENT and STAKED_COMMITMENT_UNSTAKE: none appears in
\* the returned transaction even if it was added with AddInput, and
\* CreateTransaction does not add staked-commitment candidates to its factory.
C29_StakedNeverSpentByOtherTypes ==
    /\ (Returned /\ ~IsStakingType(btype))
          => \A k \in 1..Len(result.vin) : ~result.vin[k].is_staked_commitment
    /\ (ctc \in {"building", "returned"} /\ ~IsStakingType(ctIn.type))
          => \A t \in Tokens : InputsOf(vInputs[t], t, TRUE) = <<>>

\* a transaction of type NORMAL was returned by a factory that holds a
\* staked-commitment input added with AddInput, and spends another input
C29_Witness ==
    /\ Returned
    /\ btype = "NORMAL"
    /\ ctc = "idle"
    /\ \E t \in Tokens : InputsOf(vInputs[t], t, TRUE) # <<>>
    /\ result.vin # <<>>

\* CreateTransaction of type NORMAL returned a transaction although one of its
\* candidates was a staked commitment
StakedCandidatePassedOver ==
    /\ ctc = "returned"
    /\ ctIn.type = "NORMAL"
    /\ ctOut.kind = "transaction"
    /\ \E k \in 1..Len(ctIn.inputCandidates) : ctIn.inputCandidates[k].is_staked_commitment

TxNext ==
    \/ \E t \in Tokens, a \in OutputAmounts, s \in BOOLEAN : AddOutput(t, a, "NORMAL", s)
    \/ \E a \in InputValues, t \in Tokens, s \in BOOLEAN : AddInput(a, t, s)
    \/ \E ty \in TxTypes : BuildTxStart(ty)
    \/ BuildTxIterate
    \/ DropResult

(***************************************************************************)
(* Part 2: blsct::VerifyTx                                                 *)
(***************************************************************************)

\* Generators: one G per token id (base, a plain token, a minted token, an NFT)
\* and H.  A point is the function from generators to integer coefficients.
MintedToken == 2
NftToken == 3
Generators == {<<"G", 0>>, <<"G", 1>>, <<"G", MintedToken>>, <<"G", NftToken>>, <<"H">>}
ZeroPoint == [b \in Generators |-> 0]
PointAdd(p, q) == [b \in Generators |-> p[b] + q[b]]
PointSub(p, q) == [b \in Generators |-> p[b] - q[b]]
\* gen.G * MclScalar(k) for the generators of token t
GTimes(t, k) == [b \in Generators |-> IF b = <<"G", t>> THEN k ELSE 0]
\* a value commitment Vs[0] = G_t * value + H * gamma
Commitment(t, value, gamma) ==
    [b \in Generators |-> IF b = <<"G", t>> THEN value ELSE IF b = <<"H">> THEN gamma ELSE 0]

\* MoneyRange (consensus/amount.h, outside the sources); MAX_MONEY scaled down
MAX_MONEY == 16
MoneyRange(v) == v >= 0 /\ v <= MAX_MONEY

\* minStake as passed to VerifyTx
VerifyMinStake == 1

\* The outputs a transaction under verification is made of.
TxOut(blsct, pred, predOk, isFee, unspendable, nValue, rpOk, staked, scOk) ==
    [blsct |-> blsct,             \* out.IsBLSCT()
     pred |-> pred,               \* what out.predicate parses to ("none": empty)
     predOk |-> predOk,           \* ExecutePredicate(parsedPredicate, view)
     isFee |-> isFee,             \* out.scriptPubKey.IsFee()
     unspendable |-> unspendable, \* out.scriptPubKey.IsUnspendable()
     nValue |-> nValue,           \* out.nValue
     rpOk |-> rpOk,               \* out.blsctData.rangeProof verifies under out.tokenId
     staked |-> staked,           \* out.GetStakedCommitmentRangeProof succeeds
     scOk |-> scOk,               \* that proof verifies for Vs[0], TokenId() and minStake
     tokenId |-> BaseToken]       \* out.tokenId

OutKinds ==
    { TxOut(TRUE, "none", TRUE, FALSE, FALSE, 0, TRUE, FALSE, TRUE),        \* confidential output
      TxOut(TRUE, "none", TRUE, FALSE, FALSE, 0, FALSE, FALSE, TRUE),       \* ... with a bad range proof
      TxOut(TRUE, "none", TRUE, FALSE, FALSE, 0, TRUE, TRUE, TRUE),         \* staked commitment
      TxOut(TRUE, "none", TRUE, FALSE, FALSE, 0, TRUE, TRUE, FALSE),        \* ... with a bad stake proof
      TxOut(TRUE, "mint_token", TRUE, FALSE, FALSE, 0, TRUE, FALSE, TRUE),  \* token mint
      TxOut(TRUE, "mint_nft", FALSE, FALSE, FALSE, 0, TRUE, FALSE, TRUE),   \* NFT mint that fails to execute
      TxOut(FALSE, "create_token", TRUE, FALSE, TRUE, 0, TRUE, FALSE, TRUE),\* token creation, no value
      TxOut(FALSE, "none", TRUE, FALSE, TRUE, 1, TRUE, FALSE, TRUE),        \* fee marker as BuildTx appends it
      TxOut(FALSE, "pay_fee", TRUE, TRUE, TRUE, 1, TRUE, FALSE, TRUE),      \* fee output with a pay-fee predicate
      TxOut(FALSE, "none", TRUE, FALSE, FALSE, 1, TRUE, FALSE, TRUE),       \* spendable output with a public value
      TxOut(FALSE, "none", TRUE, FALSE, TRUE, MAX_MONEY + 1, TRUE, FALSE, TRUE) }
                                                 \* unspendable, value out of range

TxIn == [coinOk : BOOLEAN]    \* coinOk: view.GetCoin(in.prevout, coin)

SeqsUpTo(S, n) == UNION {[1..k -> S] : k \in 0..n}

VerifyCalls ==
    [isCoinBase : BOOLEAN,       \* tx.IsCoinBase()
     haveInputs : BOOLEAN,       \* view.HaveInputs(tx)
     blockReward : {0, 1},
     vin : SeqsUpTo(TxIn, MaxVin),
     vout : SeqsUpTo(OutKinds, MaxVout),
     sigOk : BOOLEAN,            \* tx.txSig is the aggregate for the pairs VerifyTx collects
     built : {FALSE}]            \* the transaction is one BuildTx returned

\* the commitment of the coin input i spends, and of the confidential output j
CoinVs0(i) == IF vtx.built THEN vtx.vin[i].Vs0 ELSE Commitment(BaseToken, 2, i)
OutVs0(j) == IF vtx.built THEN vtx.vout[j].Vs0 ELSE Commitment(BaseToken, 1, 10 + j)

NoCall == [isCoinBase |-> FALSE, haveInputs |-> FALSE, blockReward |-> 0,
           vin |-> <<>>, vout |-> <<>>, sigOk |-> FALSE, built |-> FALSE]

VerifyIdle ==
    /\ vtx = NoCall
    /\ vpc = "idle"
    /\ vidx = 0
    /\ vPairs = <<>>
    /\ vProofs = <<>>
    /\ balanceKey = ZeroPoint
    /\ vnFee = 0
    /\ vreasons = <<>>
    /\ vres = "none"
    /\ vlog = <<>>

\* a call of VerifyTx with a fresh TxValidationState
VerifyInit ==
    /\ vtx \in VerifyCalls
    /\ (vtx.blockReward > 0 => vtx.isCoinBase)
    /\ vpc = "start"
    /\ vidx = 0
    /\ vPairs = <<>>
    /\ vProofs = <<>>
    /\ balanceKey = ZeroPoint
    /\ vnFee = 0
    /\ vreasons = <<>>
    /\ vres = "none"
    /\ vlog = <<>>

Event(ev, i) == [ev |-> ev, i |-> i]

\* return state.Invalid(..., reason)
Invalid(reason, log) ==
    /\ vreasons' = Append(vreasons, reason)
    /\ vres' = "false"
    /\ vpc' = "done"
    /\ vlog' = log

AfterStartSkipInputs == IF Len(vtx.vout) = 0 THEN "sig" ELSE "outputs"

\* where the run goes after the inputs: the output loop, or line 130 if there is none
AfterInputs == IF Len(vtx.vout) = 0 THEN "sig" ELSE "outputs"
AfterStart == IF vtx.isCoinBase \/ Len(vtx.vin) = 0 THEN AfterInputs ELSE "inputs"

\* lines 33-47
VerifyStart ==
    /\ UNCHANGED notVerify
    /\ vpc = "start"
    /\ IF ~vtx.haveInputs
       THEN /\ Invalid("bad-inputs-unknown", Append(vlog, Event("HaveInputs", 0)))
            /\ UNCHANGED <<vidx, balanceKey>>
       ELSE /\ balanceKey' = IF vtx.blockReward > 0
                             THEN GTimes(BaseToken, vtx.blockReward)
                             ELSE ZeroPoint
            /\ vpc' = AfterStart
            /\ vidx' = 1
            /\ vlog' = Append(vlog, Event("HaveInputs", 0))
            /\ UNCHANGED <<vreasons, vres>>
    /\ UNCHANGED <<vtx, vPairs, vProofs, vnFee>>

\* lines 51-63: one input
VerifyInput ==
    /\ UNCHANGED notVerify
    /\ vpc = "inputs"
    /\ vidx <= Len(vtx.vin)
    /\ IF ~vtx.vin[vidx].coinOk
       THEN /\ Invalid("bad-input-unknown", Append(vlog, Event("GetCoin", vidx)))
            /\ UNCHANGED <<vidx, vPairs, balanceKey>>
       ELSE /\ vPairs' = Append(vPairs, [pk |-> <<"spendingKey", vidx>>,
                                         msg |-> <<"in_hash", vidx>>])
            /\ balanceKey' = PointAdd(balanceKey, CoinVs0(vidx))
            /\ vlog' = Append(vlog, Event("GetCoin", vidx))
            /\ vidx' = IF vidx = Len(vtx.vin) THEN 1 ELSE vidx + 1
            /\ vpc' = IF vidx = Len(vtx.vin) THEN AfterInputs ELSE "inputs"
            /\ UNCHANGED <<vreasons, vres>>
    /\ UNCHANGED <<vtx, vProofs, vnFee>>

\* lines 75-91: the pairs a parsed predicate adds
PredicatePairs(o, j) ==
    IF o.pred \in {"mint_token", "create_token", "mint_nft"}
    THEN <<[pk |-> <<"predicateKey", j>>, msg |-> <<"out_hash", j>>]>>
    ELSE IF o.isFee /\ o.pred = "pay_fee"
    THEN <<[pk |-> <<"predicateKey", j>>, msg |-> "BLSCTFEE"]>>
    ELSE <<>>

\* lines 79 and 87: what a parsed predicate adds to the balance key
PredicateBalance(o) ==
    IF o.pred = "mint_token" THEN GTimes(MintedToken, 1)
    ELSE IF o.pred = "mint_nft" THEN GTimes(NftToken, 1)
    ELSE ZeroPoint

\* lines 116-121: the reason a transparent output is rejected for, "" if none
TransparentReasonFeeFirst(o, fee) ==
    IF fee > 0 \/ ~MoneyRange(o.nValue) THEN "more-than-one-fee-output"
    ELSE IF ~o.unspendable /\ o.nValue > 0 THEN "spendable-output-with-public-value"
    ELSE ""

TransparentReasonNoSpendCheck(o, fee) ==
    IF fee > 0 \/ ~MoneyRange(o.nValue) THEN "more-than-one-fee-output" ELSE ""

TransparentReason(o, fee) ==
    IF ~o.unspendable /\ o.nValue > 0 THEN "spendable-output-with-public-value"
    ELSE IF fee > 0 \/ ~MoneyRange(o.nValue) THEN "more-than-one-fee-output"
    ELSE ""

OutputProofsKeepVs(o, j) ==
    <<[kind |-> "range", out |-> j, Vs |-> <<OutVs0(j)>>, seed |-> o.tokenId,
       min_value |-> 0, ok |-> o.rpOk]>>
    \o (IF o.staked
        THEN <<[kind |-> "staked", out |-> j,
                Vs |-> <<Commitment(BaseToken, VerifyMinStake, 0)>>, seed |-> BaseToken,
                min_value |-> VerifyMinStake, ok |-> TRUE]>>
        ELSE <<>>)

\* lines 99-114: the proofs a confidential output adds to vProofs
OutputProofs(o, j) ==
    <<[kind |-> "range", out |-> j, Vs |-> <<OutVs0(j)>>, seed |-> o.tokenId,
       min_value |-> 0, ok |-> o.rpOk]>>
    \o (IF o.staked
        THEN <<[kind |-> "staked", out |-> j, Vs |-> <<OutVs0(j)>>, seed |-> BaseToken,
                min_value |-> VerifyMinStake, ok |-> o.scOk]>>
        ELSE <<>>)

\* lines 69-128: one output
VerifyOutput ==
    /\ UNCHANGED notVerify
    /\ vpc = "outputs"
    /\ vidx <= Len(vtx.vout)
    /\ LET o == vtx.vout[vidx]
           hasPred == o.pred # "none"
           pairs1 == IF hasPred THEN vPairs \o PredicatePairs(o, vidx) ELSE vPairs
           key1 == IF hasPred THEN PointAdd(balanceKey, PredicateBalance(o)) ELSE balanceKey
           log1 == IF hasPred
                   THEN vlog \o <<Event("FoldPredicate", vidx), Event("ExecutePredicate", vidx)>>
                   ELSE vlog
           next == /\ vidx' = IF vidx = Len(vtx.vout) THEN 0 ELSE vidx + 1
                   /\ vpc' = IF vidx = Len(vtx.vout) THEN "sig" ELSE "outputs"
                   /\ UNCHANGED <<vreasons, vres>>
       IN IF hasPred /\ ~o.predOk
          THEN /\ Invalid("failed-to-execute-predicate", log1)
               /\ vPairs' = pairs1
               /\ balanceKey' = key1
               /\ UNCHANGED <<vidx, vProofs, vnFee>>
          ELSE IF o.blsct
          THEN /\ vPairs' = Append(pairs1, [pk |-> <<"ephemeralKey", vidx>>,
                                            msg |-> <<"out_hash", vidx>>])
               /\ vProofs' = vProofs \o OutputProofs(o, vidx)
               /\ balanceKey' = PointSub(key1, OutVs0(vidx))
               /\ vlog' = Append(log1, Event("Confidential", vidx))
               /\ UNCHANGED vnFee
               /\ next
          ELSE IF TransparentReason(o, vnFee) # ""
          THEN /\ Invalid(TransparentReason(o, vnFee), Append(log1, Event("Transparent", vidx)))
               /\ vPairs' = pairs1
               /\ balanceKey' = key1
               /\ UNCHANGED <<vidx, vProofs, vnFee>>
          ELSE /\ vPairs' = pairs1
               /\ vnFee' = IF o.nValue # 0 /\ o.pred = "pay_fee" THEN o.nValue ELSE vnFee
               /\ balanceKey' = IF o.nValue = 0 THEN key1
                                ELSE PointSub(key1, GTimes(o.tokenId, o.nValue))
               /\ vlog' = Append(log1, Event("Transparent", vidx))
               /\ UNCHANGED vProofs
               /\ next
    /\ UNCHANGED vtx

\* PublicKeys{vPubKeys}.VerifyBatch(vMessages, tx.txSig, true); the balance
\* signature of a built transaction was made with PrivateKey(gammaAcc), so it
\* verifies for the balance key that is that key's public key
VerifyBatch(pairs, tx) ==
    /\ tx.sigOk
    /\ tx.built => pairs[Len(pairs)].pk = Commitment(BaseToken, 0, tx.gammaAcc)

RpVerifyNone(proofs) == TRUE

\* rp.Verify(vProofs): every proof of the batch verifies
RpVerify(proofs) == \A k \in 1..Len(proofs) : proofs[k].ok

\* lines 130-136
VerifySig ==
    /\ UNCHANGED notVerify
    /\ vpc = "sig"
    /\ vPairs' = Append(vPairs, [pk |-> balanceKey, msg |-> "BLSCTBALANCE"])
    /\ IF ~VerifyBatch(vPairs', vtx)
       THEN Invalid("failed-signature-check", Append(vlog, Event("VerifyBatch", 0)))
       ELSE /\ vpc' = "rp"
            /\ vlog' = Append(vlog, Event("VerifyBatch", 0))
            /\ UNCHANGED <<vreasons, vres>>
    /\ UNCHANGED <<vtx, vidx, vProofs, balanceKey, vnFee>>

\* lines 138-143
VerifyRp ==
    /\ UNCHANGED notVerify
    /\ vpc = "rp"
    /\ IF ~RpVerify(vProofs)
       THEN Invalid("failed-rangeproof-check", Append(vlog, Event("RpVerify", 0)))
       ELSE /\ vres' = "true"
            /\ vpc' = "done"
            /\ vlog' = Append(vlog, Event("RpVerify", 0))
            /\ UNCHANGED vreasons
    /\ UNCHANGED <<vtx, vidx, vPairs, vProofs, balanceKey, vnFee>>

(***************************************************************************)
(* Claims about VerifyTx                                                   *)
(***************************************************************************)
VDone == vpc = "done"
Accepted == VDone /\ vres = "true"
Rejected == VDone /\ vres = "false"

EventCount(ev) == Cardinality({k \in 1..Len(vlog) : vlog[k].ev = ev})

\* what the proofs of a transaction are worth, read off the transaction
AllProofsGood(tx) ==
    \A j \in 1..Len(tx.vout) :
        tx.vout[j].blsct =>
            /\ tx.vout[j].rpOk
            /\ (tx.vout[j].staked => tx.vout[j].scOk)

\* the outputs whose predicate executes
ReachedProofs(tx) == \A j \in 1..Len(tx.vout) : tx.vout[j].pred = "none" \/ tx.vout[j].predOk

\* C4: VerifyTx returns true only if the one batched signature verification
\* over the collected pairs (ending with the balance pair) succeeded and the
\* batched range-proof verification over the proofs of every confidential output
\* succeeded; a finished run with a failing signature or a failing proof is a
\* rejection.
C4_TrueOnlyIfSignatureAndProofsPass ==
    /\ Accepted =>
          /\ vtx.sigOk
          /\ AllProofsGood(vtx)
          /\ EventCount("VerifyBatch") = 1
          /\ EventCount("RpVerify") = 1
          /\ vPairs[Len(vPairs)] = [pk |-> balanceKey, msg |-> "BLSCTBALANCE"]
          /\ Len(vProofs) = Cardinality({j \in 1..Len(vtx.vout) : vtx.vout[j].blsct})
                            + Cardinality({j \in 1..Len(vtx.vout) :
                                              vtx.vout[j].blsct /\ vtx.vout[j].staked})
    /\ (VDone /\ (~vtx.sigOk \/ ~AllProofsGood(vtx))) => Rejected

\* an accepted transaction with an input and two proofs in the batch
C4_Witness ==
    /\ Accepted
    /\ Len(vtx.vin) > 0 /\ ~vtx.isCoinBase
    /\ Len(vProofs) >= 2

RECURSIVE OutputsReason(_, _, _)
\* The first failing output check of vout[j..], in the order the claim gives:
\* per output, predicate execution, then spendable public value, then fee output.
OutputsReason(vout, j, fee) ==
    IF j > Len(vout) THEN ""
    ELSE IF vout[j].pred # "none" /\ ~vout[j].predOk THEN "failed-to-execute-predicate"
    ELSE IF ~vout[j].blsct /\ ~vout[j].unspendable /\ vout[j].nValue > 0
         THEN "spendable-output-with-public-value"
    ELSE IF ~vout[j].blsct /\ (fee > 0 \/ vout[j].nValue < 0 \/ vout[j].nValue > MAX_MONEY)
         THEN "more-than-one-fee-output"
    ELSE OutputsReason(vout, j + 1,
                       IF ~vout[j].blsct /\ vout[j].nValue # 0 /\ vout[j].pred = "pay_fee"
                       THEN vout[j].nValue ELSE fee)

InputUnresolved(tx) == ~tx.isCoinBase /\ \E i \in 1..Len(tx.vin) : ~tx.vin[i].coinOk

\* the reason of the first failing check of a call, "" if every check passes
ExpectedReason(tx) ==
    IF ~tx.haveInputs THEN "bad-inputs-unknown"
    ELSE IF InputUnresolved(tx) THEN "bad-input-unknown"
    ELSE IF OutputsReason(tx.vout, 1, 0) # "" THEN OutputsReason(tx.vout, 1, 0)
    ELSE IF ~tx.sigOk THEN "failed-signature-check"
    ELSE IF ~AllProofsGood(tx) THEN "failed-rangeproof-check"
    ELSE ""

\* C5: every failing run of VerifyTx records exactly one rejection reason, that
\* of the first failing check (inputs available, each input resolvable, per
\* output: predicate execution, spendable public value, fee output; signature
\* batch; range-proof batch); a run that has not failed records none; when the
\* signature check fails the range proofs are not verified.
C5_OneReasonFirstFailingCheck ==
    /\ Rejected => (ExpectedReason(vtx) # "" /\ vreasons = <<ExpectedReason(vtx)>>)
    /\ ~Rejected => vreasons = <<>>
    /\ Accepted => ExpectedReason(vtx) = ""
    /\ (Rejected /\ vreasons = <<"failed-signature-check">>) => EventCount("RpVerify") = 0

\* both the signature and a range proof are bad: the signature's reason is given
C5_Witness ==
    /\ Rejected
    /\ ~vtx.sigOk /\ ~AllProofsGood(vtx)
    /\ vreasons = <<"failed-signature-check">>
    /\ Len(vProofs) > 0

\* the index of the first input GetCoin fails for
FirstUnresolved(tx) ==
    CHOOSE i \in 1..Len(tx.vin) :
        /\ ~tx.vin[i].coinOk
        /\ \A k \in 1..(i - 1) : tx.vin[k].coinOk

InputEvents == {"HaveInputs", "GetCoin"}

\* C6: VerifyTx rejects as soon as an input cannot be resolved: with
\* bad-inputs-unknown when HaveInputs fails (nothing else has run), with
\* bad-input-unknown at the first input of a non-coinbase transaction GetCoin
\* fails for; no output has been processed, no signature or range-proof check
\* has run; the two reasons are given in no other case.
C6_UnresolvedInputRejectedFirst ==
    /\ (VDone /\ ~vtx.haveInputs) =>
          /\ Rejected
          /\ vreasons = <<"bad-inputs-unknown">>
          /\ vlog = <<Event("HaveInputs", 0)>>
    /\ (VDone /\ vtx.haveInputs /\ InputUnresolved(vtx)) =>
          /\ Rejected
          /\ vreasons = <<"bad-input-unknown">>
          /\ Len(vlog) = 1 + FirstUnresolved(vtx)
          /\ vlog[Len(vlog)] = Event("GetCoin", FirstUnresolved(vtx))
    /\ (vtx.haveInputs /\ InputUnresolved(vtx)) =>
          /\ \A k \in 1..Len(vlog) : vlog[k].ev \in InputEvents
          /\ vProofs = <<>>
    /\ (Rejected /\ vreasons = <<"bad-inputs-unknown">>) => ~vtx.haveInputs
    /\ (Rejected /\ vreasons = <<"bad-input-unknown">>) => InputUnresolved(vtx)

\* the second input of a transaction with outputs cannot be resolved
C6_Witness ==
    /\ Rejected
    /\ vreasons = <<"bad-input-unknown">>
    /\ FirstUnresolved(vtx) = 2
    /\ Len(vtx.vout) > 0

\* the transparent outputs that carry a nonzero public value
PublicValueOutputs(tx) ==
    {j \in 1..Len(tx.vout) : ~tx.vout[j].blsct /\ tx.vout[j].nValue # 0}

\* C7: no transaction accepted by VerifyTx contains more than one fee output,
\* a fee output being a transparent output that carries a nonzero public value
\* (such as the fee marker BuildTx appends).
C7_AtMostOneFeeOutput ==
    Accepted => Cardinality(PublicValueOutputs(vtx)) <= 1

\* the transparent outputs with a public value whose script is spendable
SpendablePublicOutputs(tx) ==
    {j \in 1..Len(tx.vout) :
        ~tx.vout[j].blsct /\ tx.vout[j].nValue > 0 /\ ~tx.vout[j].unspendable}

FirstSpendablePublic(tx) ==
    CHOOSE j \in SpendablePublicOutputs(tx) : \A k \in SpendablePublicOutputs(tx) : j <= k

\* a check that comes before the spendable-value check of output j fails
FailsBefore(tx, j) ==
    \/ ~tx.haveInputs
    \/ InputUnresolved(tx)
    \/ OutputsReason(SubSeq(tx.vout, 1, j - 1), 1, 0) # ""
    \/ (tx.vout[j].pred # "none" /\ ~tx.vout[j].predOk)

\* C8 as stated: every transaction with a spendable transparent output of
\* positive public value is rejected with spendable-output-with-public-value.
C8_SpendablePublicValueReason ==
    (VDone /\ SpendablePublicOutputs(vtx) # {}) =>
        (Rejected /\ vreasons = <<"spendable-output-with-public-value">>)

\* C8 amended: every transaction with a spendable transparent output of
\* positive public value is rejected; the reason is
\* spendable-output-with-public-value unless a check that comes before the one
\* of the first such output fails (inputs, an earlier output, that output's
\* predicate), and then it is that check's reason; no accepted transaction has
\* such an output.
C8_SpendablePublicValueRejected ==
    /\ (VDone /\ SpendablePublicOutputs(vtx) # {}) =>
          /\ Rejected
          /\ IF FailsBefore(vtx, FirstSpendablePublic(vtx))
             THEN vreasons = <<ExpectedReason(vtx)>>
                  /\ vreasons # <<"spendable-output-with-public-value">>
             ELSE vreasons = <<"spendable-output-with-public-value">>
    /\ Accepted => SpendablePublicOutputs(vtx) = {}

\* the second output is the spendable one and is what the run is rejected for
C8_Witness ==
    /\ Rejected
    /\ vreasons = <<"spendable-output-with-public-value">>
    /\ FirstSpendablePublic(vtx) = 2
    /\ Len(vtx.vin) > 0

\* the effects of a predicate reach the signature check only if it executed
AcceptedOnlyIfPredicatesExecuted ==
    (vpc \in {"sig", "rp"} \/ Accepted) => ReachedProofs(vtx)

\* C21: the predicate of an output is executed successfully against the view
\* before any effect of it (the minted amount or unit, its public key and
\* message) is added to the balance key and to the pair lists: every fold of a
\* predicate in the run comes after the execution of that predicate.
C21_PredicateExecutedBeforeFold ==
    \A k \in 1..Len(vlog) :
        vlog[k].ev = "FoldPredicate"
            => \E m \in 1..(k - 1) : vlog[m] = Event("ExecutePredicate", vlog[k].i)

\* the proofs of vProofs that belong to output j, in order
ProofsOf(j) == SelectSeq(vProofs, LAMBDA p : p.out = j)
\* the confidential branch has been run for output j
ConfidentialFolded(j) == \E k \in 1..Len(vlog) : vlog[k] = Event("Confidential", j)
CarriesStakeProof(j) == vtx.vout[j].blsct /\ vtx.vout[j].staked

\* C30: for every confidential output that carries a staked-commitment range
\* proof, two proofs are in the batch: the output's own range proof under the
\* output's token seed, and the staked-commitment proof with the output's own
\* Vs[0] as its only value commitment, the base-token seed and minStake as
\* minimum value; so an accepted transaction has, for each such output, a stake
\* proof that verifies for the output's own commitment.
C30_StakedProofOnOwnCommitment ==
    /\ \A j \in 1..Len(vtx.vout) :
           (CarriesStakeProof(j) /\ ConfidentialFolded(j)) =>
               /\ Len(ProofsOf(j)) = 2
               /\ ProofsOf(j)[1].kind = "range"
               /\ ProofsOf(j)[1].Vs = <<OutVs0(j)>>
               /\ ProofsOf(j)[1].seed = vtx.vout[j].tokenId
               /\ ProofsOf(j)[1].min_value = 0
               /\ ProofsOf(j)[2].kind = "staked"
               /\ ProofsOf(j)[2].Vs = <<OutVs0(j)>>
               /\ ProofsOf(j)[2].seed = BaseToken
               /\ ProofsOf(j)[2].min_value = VerifyMinStake
    /\ Accepted =>
           \A j \in 1..Len(vtx.vout) :
               CarriesStakeProof(j) => (ConfidentialFolded(j) /\ vtx.vout[j].rpOk /\ vtx.vout[j].scOk)

\* an accepted transaction with a staked-commitment output and another
\* confidential output before it
C30_Witness ==
    /\ Accepted
    /\ Len(vtx.vout) = 2
    /\ vtx.vout[1].blsct /\ ~vtx.vout[1].staked
    /\ CarriesStakeProof(2)
    /\ Len(vProofs) = 3

VerifyNext ==
    \/ VerifyStart
    \/ VerifyInput
    \/ VerifyOutput
    \/ VerifySig
    \/ VerifyRp

(***************************************************************************)
(* Part 3: RangeProofLogic::Prove and RangeProofLogic::Verify              *)
(*                                                                         *)
(* Scalars are the integers modulo FieldOrder and an input value has       *)
(* NumBits bits.  A point is kept as its coefficients on the generators    *)
(* G, H, Gi[1..mn] and Hi[1..mn].  The hash of the Fiat-Shamir hasher is a  *)
(* function of everything fed so far whose values are fixed when first     *)
(* asked for (oracle).                                                     *)
(***************************************************************************)
FieldOrder == 3     \* order of the scalar field
NumBits == 1        \* range_proof::Setup::num_input_value_bits

Zp == 0..(FieldOrder - 1)
NonZero == 1..(FieldOrder - 1)
Fp(a) == a % FieldOrder
Inv(a) == CHOOSE b \in NonZero : Fp(a * b) = 1

RECURSIVE Pow(_, _)
Pow(a, k) == IF k = 0 THEN 1 ELSE Fp(a * Pow(a, k - 1))

RECURSIVE SumSeq(_)
SumSeq(s) == IF s = <<>> THEN 0 ELSE Fp(Head(s) + SumSeq(Tail(s)))

\* Elements<Scalar>: +, -, * are element-wise
VecAdd(a, b) == [k \in 1..Len(a) |-> Fp(a[k] + b[k])]
VecSub(a, b) == [k \in 1..Len(a) |-> Fp(a[k] - b[k])]
VecMul(a, b) == [k \in 1..Len(a) |-> Fp(a[k] * b[k])]
VecScale(a, s) == [k \in 1..Len(a) |-> Fp(a[k] * s)]
RepeatN(s, n) == [k \in 1..n |-> s]
FirstNPow(s, n, from) == [k \in 1..n |-> Pow(s, from + k - 1)]
InnerProd(a, b) == SumSeq(VecMul(a, b))

GetFirstPowerOf2GreaterOrEqTo(n) == IF n <= 1 THEN 1 ELSE IF n <= 2 THEN 2 ELSE IF n <= 4 THEN 4 ELSE 8
GetSeriBit(v, i) == (v \div (2 ^ i)) % 2
TwoPows64 == [k \in 1..NumBits |-> Fp(2 ^ (k - 1))]
InnerProd1x2Pows64 == SumSeq(TwoPows64)

\* a point as its coefficients, and what the hasher is fed for it
Pt(g, h, gi, hi) == [g |-> g, h |-> h, gi |-> gi, hi |-> hi]
NoPoint == Pt(0, 0, <<>>, <<>>)
Ser(p) == <<p.g, p.h>> \o p.gi \o p.hi

\* the inputs of Prove
RpValues == 0..(2 ^ NumBits - 1)
Messages == {[msg1 |-> 0, msg2 |-> 2]}
GammaSeeds ==
    {[kind |-> "point", id |-> 1, vec |-> <<>>]}
    \cup {[kind |-> "vector", id |-> 2, vec |-> [i \in 1..n |-> 1 + (i % 2)]] : n \in 1..MaxValues}
MinValues == {0, 1}
ProveCalls ==
    [vs : UNION {[1..n -> RpValues] : n \in 1..MaxValues},
     nonce : GammaSeeds,
     message : Messages,
     minValue : MinValues]

\* nonce.GetHashWithSalt(salt): a fixed function of the seed and the salt
GetHashWithSalt(nonce, salt) == Fp(nonce.id + salt)
\* MsgAmtCipher::ComputeAlpha, RetrieveMsg2
ComputeAlpha(message, v0, nonce_alpha) == Fp(nonce_alpha + message.msg1 * (2 ^ NumBits) + v0)
RetrieveMsg2(message) == message.msg2

NoChallenges == [y |-> 0, z |-> 0, x |-> 0, c_factor |-> 0]
NoIpa == [l |-> <<>>, r |-> <<>>, c_factor |-> 0, xs |-> 0]
NoProof == [Vs |-> <<>>, A |-> NoPoint, S |-> NoPoint, T1 |-> NoPoint, T2 |-> NoPoint,
            tau_x |-> 0, mu |-> 0, t_hat |-> 0, ipa |-> NoIpa]
NoProveCall == [vs |-> <<>>, nonce |-> [kind |-> "point", id |-> 0, vec |-> <<>>],
                message |-> [msg1 |-> 0, msg2 |-> 0], minValue |-> 0]

RpIdle ==
    /\ rpIn = NoProveCall
    /\ rpc = "idle"
    /\ attempt = 0
    /\ fiat_shamir = <<>>
    /\ oracle = <<>>
    /\ chal = NoChallenges
    /\ proof = NoProof
    /\ rpres = "none"

\* a call of Prove
RpInit ==
    /\ rpIn \in ProveCalls
    /\ rpc = "start"
    /\ attempt = 0
    /\ fiat_shamir = <<>>
    /\ oracle = <<>>
    /\ chal = NoChallenges
    /\ proof = NoProof
    /\ rpres = "none"

\* lines 76-81
num_input_values_power_of_2 == GetFirstPowerOf2GreaterOrEqTo(Len(rpIn.vs))
concat_input_values_in_bits == num_input_values_power_of_2 * NumBits

PadZero(s, n) == [k \in 1..n |-> IF k <= Len(s) THEN s[k] ELSE 0]
\* lines 85-92 and 112-115: vsOriginal and vs after minValue and the padding
vsOriginal == PadZero(rpIn.vs, num_input_values_power_of_2)
vsShifted ==
    PadZero([i \in 1..Len(rpIn.vs) |-> Fp(rpIn.vs[i] - rpIn.minValue)],
            num_input_values_power_of_2)

\* lines 95-109
gammas ==
    IF rpIn.nonce.kind = "point"
    THEN [i \in 1..num_input_values_power_of_2 |-> GetHashWithSalt(rpIn.nonce, 100 + i - 1)]
    ELSE rpIn.nonce.vec

ZeroVec == RepeatN(0, concat_input_values_in_bits)

\* line 129
ValueCommitment(i) == Pt(vsOriginal[i], gammas[i], ZeroVec, ZeroVec)

\* lines 137-151
aL ==
    [k \in 1..concat_input_values_in_bits |->
        GetSeriBit(vsShifted[((k - 1) \div NumBits) + 1], (k - 1) % NumBits)]
aR == VecSub(aL, RepeatN(1, concat_input_values_in_bits))

\* lines 74-151: Prove up to the retry label
ProveStart ==
    /\ UNCHANGED notRp
    /\ rpc = "start"
    /\ IF rpIn.nonce.kind = "vector" /\ Len(rpIn.vs) # Len(rpIn.nonce.vec)
       THEN \* line 104: throw std::runtime_error
            /\ rpc' = "thrown"
            /\ UNCHANGED <<fiat_shamir, proof>>
       ELSE IF Len(gammas) < num_input_values_power_of_2
       THEN \* line 129 reads gammas[i] for a padded i the vector seed has no entry for
            /\ rpc' = "fault"
            /\ UNCHANGED <<fiat_shamir, proof>>
       ELSE /\ proof' = [proof EXCEPT !.Vs = [i \in 1..num_input_values_power_of_2 |->
                                                 ValueCommitment(i)]]
            /\ fiat_shamir' = [i \in 1..num_input_values_power_of_2 |->
                                 Ser(ValueCommitment(i))]
            /\ rpc' = "retry"
    /\ UNCHANGED <<rpIn, attempt, oracle, chal, rpres>>

\* Scalars::RandVec(n, true): the draw of the k-th pass, nonzero entries
RandVec(k) == RepeatN(1 + (k % (FieldOrder - 1)), concat_input_values_in_bits)
sL(k) == RandVec(k)
sR(k) == RandVec(k)

\* lines 157-171
alpha == ComputeAlpha(rpIn.message, vsOriginal[1], GetHashWithSalt(rpIn.nonce, 1))
rho == GetHashWithSalt(rpIn.nonce, 2)
CommitA == Pt(0, alpha, aL, aR)
CommitS(k) == Pt(0, rho, sL(k), sR(k))

\* lines 153-175: from the retry label to the first challenge
ProveCommit ==
    /\ UNCHANGED notRp
    /\ rpc = "retry"
    /\ attempt < MaxAttempts
    /\ attempt' = attempt + 1
    /\ proof' = [proof EXCEPT !.A = CommitA, !.S = CommitS(attempt')]
    /\ fiat_shamir' = fiat_shamir \o <<Ser(CommitA), Ser(CommitS(attempt'))>>
    /\ chal' = NoChallenges
    /\ rpc' = "y"
    /\ UNCHANGED <<rpIn, oracle, rpres>>

\* fiat_shamir.GetHash() on the state h: the value given before, if any
GetHash(h) == IF h \in DOMAIN oracle THEN {oracle[h]} ELSE Zp

\* GEN_FIAT_SHAMIR_VAR(var, fiat_shamir, retry) on the hasher state h: the hash
\* is the challenge, a zero one jumps to retry, any other is fed to the hasher
GenFiatShamirVar(var, h, v, next) ==
    /\ v \in GetHash(h)
    /\ oracle' = (h :> v) @@ oracle
    /\ IF v = 0
       THEN /\ rpc' = "retry"
            /\ fiat_shamir' = h
            /\ UNCHANGED chal
       ELSE /\ rpc' = next
            /\ fiat_shamir' = Append(h, <<v>>)
            /\ chal' = [chal EXCEPT ![var] = v]

\* line 177
ProveY ==
    /\ UNCHANGED notRp
    /\ rpc = "y"
    /\ \E v \in Zp : GenFiatShamirVar("y", fiat_shamir, v, "z")
    /\ UNCHANGED <<rpIn, attempt, proof, rpres>>

\* line 178
ProveZ ==
    /\ UNCHANGED notRp
    /\ rpc = "z"
    /\ \E v \in Zp : GenFiatShamirVar("z", fiat_shamir, v, "x")
    /\ UNCHANGED <<rpIn, attempt, proof, rpres>>

\* lines 184-205
l0(z) == VecSub(aL, RepeatN(z, concat_input_values_in_bits))
l1(k) == sL(k)
z_pow_twos(z) ==
    [k \in 1..concat_input_values_in_bits |->
        Fp(Pow(z, 2 + ((k - 1) \div NumBits)) * TwoPows64[((k - 1) % NumBits) + 1])]
y_pows(y) == FirstNPow(y, concat_input_values_in_bits, 0)
r0(y, z) ==
    VecAdd(VecMul(y_pows(y), VecAdd(aR, RepeatN(z, concat_input_values_in_bits))),
           z_pow_twos(z))
r1(y, k) == VecMul(y_pows(y), sR(k))

\* lines 208-219
t1(y, z, k) == Fp(InnerProd(l0(z), r1(y, k)) + InnerProd(l1(k), r0(y, z)))
t2(y, k) == InnerProd(l1(k), r1(y, k))
nonce_tau1 == GetHashWithSalt(rpIn.nonce, 3)
tau2 == GetHashWithSalt(rpIn.nonce, 4)
tau1 == Fp(nonce_tau1 + RetrieveMsg2(rpIn.message))
CommitT1(y, z, k) == Pt(t1(y, z, k), tau1, ZeroVec, ZeroVec)
CommitT2(y, k) == Pt(t2(y, k), tau2, ZeroVec, ZeroVec)

\* lines 180-225
ProveX ==
    /\ UNCHANGED notRp
    /\ rpc = "x"
    /\ LET T1 == CommitT1(chal.y, chal.z, attempt)
           T2 == CommitT2(chal.y, attempt)
       IN /\ proof' = [proof EXCEPT !.T1 = T1, !.T2 = T2]
          /\ \E v \in Zp :
                GenFiatShamirVar("x", fiat_shamir \o <<Ser(T1), Ser(T2)>>, v, "c_factor")
    /\ UNCHANGED <<rpIn, attempt, rpres>>

\* lines 228-236
lx(z, x, k) == VecAdd(l0(z), VecScale(l1(k), x))
rx(y, z, x, k) == VecAdd(r0(y, z), VecScale(r1(y, k), x))
t_hat(y, z, x, k) == InnerProd(lx(z, x, k), rx(y, z, x, k))
t0(y, z) == InnerProd(l0(z), r0(y, z))
t_of_x(y, z, x, k) == Fp(t0(y, z) + t1(y, z, k) * x + t2(y, k) * x * x)

\* MsgAmtCipher::ComputeTauX(message, x, z, nonce_tau1, tau2, z_pows_from_2, gammas)
ComputeTauX(message, x, z, ntau1, ntau2, gs) ==
    Fp(ntau2 * x * x + Fp(ntau1 + RetrieveMsg2(message)) * x
       + SumSeq([i \in 1..Len(gs) |-> Fp(Pow(z, 1 + i) * gs[i])]))

\* lines 228-257
ProveCFactor ==
    /\ UNCHANGED notRp
    /\ rpc = "c_factor"
    /\ LET th == t_hat(chal.y, chal.z, chal.x, attempt)
           tx == ComputeTauX(rpIn.message, chal.x, chal.z, nonce_tau1, tau2, gammas)
           mu == Fp(alpha + rho * chal.x)
       IN IF th # t_of_x(chal.y, chal.z, chal.x, attempt)
          THEN \* line 240: throw std::runtime_error
               /\ rpc' = "thrown"
               /\ UNCHANGED <<fiat_shamir, oracle, chal, proof>>
          ELSE /\ proof' = [proof EXCEPT !.tau_x = tx, !.mu = mu, !.t_hat = th]
               /\ \E v \in Zp :
                     GenFiatShamirVar("c_factor", fiat_shamir \o <<<<tx>>, <<mu>>, <<th>>>>,
                                      v, "ipa")
    /\ UNCHANGED <<rpIn, attempt, rpres>>

\* what the hasher is fed for the Ls and Rs of an inner product argument on (l, r)
SerLsRs(l, r, c_factor) == <<c_factor>> \o l \o r

\* lines 259-274: ImpInnerProdArg::Run feeds Ls and Rs to the hasher and derives
\* its round challenge from it; a zero one makes it return std::nullopt
ProveInnerProdArg ==
    /\ UNCHANGED notRp
    /\ rpc = "ipa"
    /\ LET l == lx(chal.z, chal.x, attempt)
           r == rx(chal.y, chal.z, chal.x, attempt)
           h == Append(fiat_shamir, SerLsRs(l, r, chal.c_factor))
       IN \E v \in Zp :
             /\ v \in GetHash(h)
             /\ oracle' = (h :> v) @@ oracle
             /\ fiat_shamir' = h
             /\ IF v = 0
                THEN /\ rpc' = "retry"
                     /\ UNCHANGED proof
                ELSE /\ rpc' = "proved"
                     /\ proof' = [proof EXCEPT !.ipa = [l |-> l, r |-> r,
                                                         c_factor |-> chal.c_factor,
                                                         xs |-> v]]
    /\ UNCHANGED <<rpIn, attempt, chal, rpres>>

\* the challenge Build derives on the hasher state h: the hash, and a nonzero
\* one after Build's own retry when the hash is zero
BuildChallenge(h) == IF h \in DOMAIN oracle /\ oracle[h] # 0 THEN {oracle[h]} ELSE NonZero

\* RangeProofWithTranscript::Build(p): the transcript derived from the proof alone
Transcripts(p) ==
    LET h1 == [i \in 1..Len(p.Vs) |-> Ser(p.Vs[i])] \o <<Ser(p.A), Ser(p.S)>>
    IN { tr \in [y : NonZero, z : NonZero, x : NonZero, c_factor : NonZero, xs : NonZero] :
            LET h2 == Append(h1, <<tr.y>>)
                h3 == Append(h2, <<tr.z>>) \o <<Ser(p.T1), Ser(p.T2)>>
                h4 == Append(h3, <<tr.x>>) \o <<<<p.tau_x>>, <<p.mu>>, <<p.t_hat>>>>
                h5 == Append(Append(h4, <<tr.c_factor>>),
                             SerLsRs(p.ipa.l, p.ipa.r, p.ipa.c_factor))
            IN /\ tr.y \in BuildChallenge(h1)
               /\ tr.z \in BuildChallenge(h2)
               /\ tr.x \in BuildChallenge(h3)
               /\ tr.c_factor \in BuildChallenge(h4)
               /\ tr.xs \in BuildChallenge(h5) }

\* lines 312-315
delta_yz(y, z, mn, m) ==
    LET y_pows_sum == SumSeq(FirstNPow(y, mn, 0))
    IN Fp(z * y_pows_sum - Pow(z, 2) * y_pows_sum
          - SumSeq([i \in 1..m |-> Fp(Pow(z, 2 + i) * InnerProd1x2Pows64)]))

\* lines 308-325, equation (65): the coefficients of G and of H cancel
Equation65(p, min_value, tr) ==
    LET m == Len(p.Vs)
        mn == m * NumBits
        onG == SumSeq([i \in 1..m |-> Fp(Pow(tr.z, 1 + i) * (p.Vs[i].g - min_value))])
               + tr.x * p.T1.g + tr.x * tr.x * p.T2.g
               - (p.t_hat - delta_yz(tr.y, tr.z, mn, m))
        onH == SumSeq([i \in 1..m |-> Fp(Pow(tr.z, 1 + i) * p.Vs[i].h)])
               + tr.x * p.T1.h + tr.x * tr.x * p.T2.h
               - p.tau_x
    IN Fp(onG) = 0 /\ Fp(onH) = 0

\* lines 327-359, equations (66)-(68) with the inner product argument: the
\* argument was made under the challenges the verifier derives, its vectors
\* open A + x*S on Gi, Hi and H, and their inner product is t_hat
Equations66To68(p, tr) ==
    LET mn == Len(p.A.gi)
        y_inv == Inv(tr.y)
    IN /\ p.ipa.c_factor = tr.c_factor
       /\ p.ipa.xs = tr.xs
       /\ Len(p.ipa.l) = mn /\ Len(p.ipa.r) = mn
       /\ \A k \in 1..mn :
             /\ Fp(p.A.gi[k] + tr.x * p.S.gi[k]) = Fp(p.ipa.l[k] + tr.z)
             /\ Fp(p.A.hi[k] + tr.x * p.S.hi[k])
                = Fp(p.ipa.r[k] * Pow(y_inv, k - 1)
                     - (Pow(tr.z, 2 + ((k - 1) \div NumBits)) * TwoPows64[((k - 1) % NumBits) + 1]
                        + tr.z * Pow(tr.y, k - 1)) * Pow(y_inv, k - 1))
       /\ Fp(p.A.h + tr.x * p.S.h) = p.mu
       /\ InnerProd(p.ipa.l, p.ipa.r) = p.t_hat

\* lines 379-402 and 283-374 for one proof wrapped with min_value
VerifyOne(p, min_value, tr) == Equation65(p, min_value, tr) /\ Equations66To68(p, tr)

\* Verify on the proof Prove returned, wrapped with the seed and minValue of the call
VerifyProved ==
    /\ UNCHANGED notRp
    /\ rpc = "proved"
    /\ \E tr \in Transcripts(proof) :
          rpres' = IF VerifyOne(proof, rpIn.minValue, tr) THEN "true" ELSE "false"
    /\ rpc' = "verified"
    /\ UNCHANGED <<rpIn, attempt, fiat_shamir, oracle, chal, proof>>

(***************************************************************************)
(* Part 5: RangeProofLogic::RecoverAmounts                                 *)
(***************************************************************************)
\* an AmountRecoveryRequest; the Ls and Rs are kept by their sizes
RecoveryRequest(id, Vs, nLs, nRs, mu, tx, x, z, nonce) ==
    [id |-> id, Vs |-> Vs, nLs |-> nLs, nRs |-> nRs, mu |-> mu, tau_x |-> tx,
     x |-> x, z |-> z, nonce |-> nonce]

\* MsgAmtCipher::Decrypt: the low bits of msg1_vs0 are the amount, the rest is
\* the first part of the message; the commitment of (amount, gamma) has to be
\* the one of the request; the second part of the message is isolated from tau_x
Decrypt(msg1_vs0, gamma_vs0, ntau1, ntau2, tx, x, z, V) ==
    LET amount == msg1_vs0 % (2 ^ NumBits)
        msg1 == msg1_vs0 \div (2 ^ NumBits)
        msg2 == Fp((tx - ntau2 * x * x - Pow(z, 2) * gamma_vs0) * Inv(x) - ntau1)
    IN IF V.g = Fp(amount) /\ V.h = gamma_vs0
       THEN {[amount |-> amount, msg |-> [msg1 |-> msg1, msg2 |-> msg2]]}
       ELSE {}

\* lines 423-430: the request is looked at at all
RequestSizesValidNoLs(req) == Len(req.Vs) = 1
RequestSizesValid(req) ==
    /\ ~(Len(req.Vs) = 0 \/ ~(req.nLs > 0 /\ req.nLs = req.nRs))
    /\ ~(Len(req.Vs) # 1)

\* line 475: the blinding factor put in the result
RecoveredGamma(req) == GetHashWithSalt(req.nonce, 100)

\* lines 417-478: one pass of the loop: "skip" (continue), "data" (push_back) or
\* "fault" (line 450 reads element 0 of a vector seed that has none)
RecoverOne(req) ==
    IF ~RequestSizesValid(req) THEN [kind |-> "skip"]
    ELSE IF req.nonce.kind = "vector" /\ Len(req.nonce.vec) = 0 THEN [kind |-> "fault"]
    ELSE LET nalpha == GetHashWithSalt(req.nonce, 1)
             nrho == GetHashWithSalt(req.nonce, 2)
             ntau1 == GetHashWithSalt(req.nonce, 3)
             ntau2 == GetHashWithSalt(req.nonce, 4)
             gamma_vs0 == IF req.nonce.kind = "point"
                          THEN GetHashWithSalt(req.nonce, 100)
                          ELSE req.nonce.vec[1]
             msg1_vs0 == Fp((req.mu - nrho * req.x) - nalpha)
             maybe_msg_amt == Decrypt(msg1_vs0, gamma_vs0, ntau1, ntau2, req.tau_x,
                                      req.x, req.z, req.Vs[1])
         IN IF maybe_msg_amt = {} THEN [kind |-> "skip"]
            ELSE LET msg_amt == CHOOSE d \in maybe_msg_amt : TRUE
                 IN [kind |-> "data",
                     data |-> [id |-> req.id, amount |-> msg_amt.amount,
                               gamma |-> RecoveredGamma(req), message |-> msg_amt.msg]]

RECURSIVE RecoverLoop(_, _, _)
\* lines 416-482: the loop from request i on, xs being the results so far
RecoverLoop(reqs, i, xs) ==
    IF i > Len(reqs) THEN [outcome |-> "returned", is_completed |-> TRUE, xs |-> xs]
    ELSE LET one == RecoverOne(reqs[i])
         IN IF one.kind = "fault"
            THEN [outcome |-> "fault", is_completed |-> FALSE, xs |-> <<>>]
            ELSE RecoverLoop(reqs, i + 1,
                             IF one.kind = "data" THEN Append(xs, one.data) ELSE xs)

RecoverAmounts(reqs) == RecoverLoop(reqs, 1, <<>>)

NoRecovery == [outcome |-> "none", is_completed |-> FALSE, xs |-> <<>>]

RcIdle ==
    /\ rcReqs = <<>>
    /\ rcc = "idle"
    /\ rcOut = NoRecovery

\* lines 16-33: AmountRecoveryRequest::of(proof, nonce, id), x and z being those
\* of the transcript Build derives from the proof
RequestOf(p, nonce, id, tr) ==
    RecoveryRequest(id, p.Vs, Len(p.ipa.l), Len(p.ipa.r), p.mu, p.tau_x, tr.x, tr.z, nonce)

RecoverId == 7

\* RecoverAmounts on the request made from the proof Prove returned and the
\* gamma seed of the call
RecoverProved ==
    /\ UNCHANGED <<txVars, verifyVars, vbVars, ctVars, smVars>>
    /\ rpc = "proved"
    /\ \E tr \in Transcripts(proof) :
          rcReqs' = <<RequestOf(proof, rpIn.nonce, RecoverId, tr)>>
    /\ rcOut' = RecoverAmounts(rcReqs')
    /\ rcc' = "returned"
    /\ rpc' = "recovered"
    /\ UNCHANGED <<rpIn, attempt, fiat_shamir, oracle, chal, proof, rpres>>

(***************************************************************************)
(* Claims about Prove and Verify                                           *)
(***************************************************************************)
\* every value is in range once minValue is taken off
ValidProveCall == \A i \in 1..Len(rpIn.vs) : rpIn.vs[i] >= rpIn.minValue
\* no padded position, or nothing to take off the padded positions
NoPaddedOffset == rpIn.minValue = 0 \/ Len(rpIn.vs) = num_input_values_power_of_2

\* Verify accepts what a call of Prove that never jumped back to retry returned
FirstPassAccepted ==
    (rpc = "verified" /\ attempt = 1 /\ ValidProveCall /\ NoPaddedOffset) => rpres = "true"

\* C9: for every valid list of values, gamma seed, message and minimum value,
\* the proof Prove returns is accepted by Verify when wrapped with the same
\* seed and minimum value, on every path through Prove, the one through the
\* retry label with the hasher not cleared included.
C9_ProvedIsVerified ==
    (rpc = "verified" /\ ValidProveCall /\ NoPaddedOffset) => rpres = "true"

\* what RecoverAmounts has to give back for the proof of the one value of the call
ExpectedRecovery ==
    [id |-> RecoverId, amount |-> rpIn.vs[1], gamma |-> proof.Vs[1].h,
     message |-> rpIn.message]

\* the recovery of a single-value proof that Prove returned without a retry,
\* the seed being a point: the one result is the expected one
FirstPassPointRecovered ==
    (rpc = "recovered" /\ attempt = 1 /\ Len(rpIn.vs) = 1 /\ rpIn.nonce.kind = "point")
        => rcOut.xs = <<ExpectedRecovery>>

\* C11: for a proof of exactly one value built by Prove with a gamma seed and a
\* message, RecoverAmounts on the request made from that proof and the same
\* seed returns exactly one result, which carries the request id, the original
\* value, the original message and the blinding factor Vs[0] was committed
\* with, for a point seed and for a vector seed alike.
C11_SingleValueRecovered ==
    (rpc = "recovered" /\ Len(rpIn.vs) = 1)
        => (rcOut.outcome = "returned" /\ rcOut.xs = <<ExpectedRecovery>>)

\* the passes through the retry label a call of Prove may use up, were its
\* retries bounded: any fixed number will do, the passes followed here are taken
RetryLimit == MaxAttempts

\* C15: the retry of Prove on a degenerate challenge is bounded: Prove jumps
\* back to the retry label at most a fixed number of times, and a prover that
\* meets a degenerate challenge in the last pass it is allowed ends with an
\* internal fault instead of jumping back once more.
C15_RetryBounded ==
    attempt >= RetryLimit => rpc # "retry"

\* the commitments of the proof are those of the original values, under the
\* blinding factors of the seed
CommitsToOriginalValues ==
    \A i \in 1..Len(rpIn.vs) :
        /\ proof.Vs[i].g = Fp(rpIn.vs[i])
        /\ proof.Vs[i].h = (IF rpIn.nonce.kind = "point"
                            THEN GetHashWithSalt(rpIn.nonce, 100 + i - 1)
                            ELSE rpIn.nonce.vec[i])

\* the bits committed to in A are those of the values less the minimum value
BitsOfOffsetValues ==
    \A i \in 1..Len(rpIn.vs) :
        \A b \in 0..(NumBits - 1) :
            proof.A.gi[(i - 1) * NumBits + b + 1]
                = GetSeriBit(Fp(rpIn.vs[i] - rpIn.minValue), b)

\* with a nonzero minimum value and no retry, Prove commits to the original
\* values and proves the bits of the offset ones
OffsetProofCommitsToOriginals ==
    (rpc \in {"proved", "verified", "recovered"} /\ ValidProveCall /\ rpIn.minValue # 0)
        => (CommitsToOriginalValues /\ BitsOfOffsetValues)

\* C20: with a nonzero minimum value Prove commits to the original values,
\* Vs[i] = G*value[i] + H*gamma[i] with the gamma of the seed, and proves the
\* bits of value[i] - minValue; Verify takes G*minValue off every Vs[i], so the
\* proof is accepted with the same minimum value. The formula is about calls
\* that return on the first pass.
C20_OffsetProofVerifies ==
    (rpc = "verified" /\ attempt = 1 /\ ValidProveCall /\ rpIn.minValue # 0)
        => (CommitsToOriginalValues /\ BitsOfOffsetValues /\ rpres = "true")

\* the positions the padding of lines 112-115 adds
PaddedPositions == (Len(rpIn.vs) + 1)..num_input_values_power_of_2
PastGammas == rpc \notin {"idle", "start", "thrown"}

\* C22: when the number of values is not a power of two, the values are padded
\* with value zero and blinding factor zero for both seed variants: every
\* padded position of Vs is the commitment of (0, 0), and Prove goes on without
\* reading a blinding factor that was not supplied.
C22_PaddedWithZeroes ==
    (PastGammas /\ PaddedPositions # {})
        => /\ rpc # "fault"
           /\ \A i \in PaddedPositions \cap DOMAIN proof.Vs :
                  proof.Vs[i] = Pt(0, 0, ZeroVec, ZeroVec)

\* what the padding does give: a padded position commits to the value zero
PaddedValueIsZero ==
    (PastGammas /\ rpc # "fault")
        => \A i \in PaddedPositions : proof.Vs[i].g = 0

RpNext ==
    \/ ProveStart
    \/ ProveCommit
    \/ ProveY
    \/ ProveZ
    \/ ProveX
    \/ ProveCFactor
    \/ ProveInnerProdArg
    \/ VerifyProved
    \/ RecoverProved

(***************************************************************************)
(* Part 5, continued: RecoverAmounts called on a list of requests          *)
(***************************************************************************)
PointSeed == [kind |-> "point", id |-> 1, vec |-> <<>>]
VectorSeed == [kind |-> "vector", id |-> 2, vec |-> <<2>>]
OtherPointSeed == [kind |-> "point", id |-> 2, vec |-> <<>>]
EmptyVectorSeed == [kind |-> "vector", id |-> 2, vec |-> <<>>]
RequestMessage == [msg1 |-> 0, msg2 |-> 2]

\* the blinding factor Prove commits Vs[0] with (lines 96-108)
SeedGamma0(nonce) ==
    IF nonce.kind = "point" THEN GetHashWithSalt(nonce, 100) ELSE nonce.vec[1]

\* the request made from a proof of the one value v that Prove built with the
\* seed and the challenges x and z (lines 129, 157-158, 242-250), with nLs Ls
\* and nRs Rs
ProvedRequest(id, nonce, v, x, z, nLs, nRs) ==
    RecoveryRequest(id,
        <<Pt(v, SeedGamma0(nonce), <<>>, <<>>)>>,
        nLs, nRs,
        Fp(ComputeAlpha(RequestMessage, v, GetHashWithSalt(nonce, 1))
           + GetHashWithSalt(nonce, 2) * x),
        ComputeTauX(RequestMessage, x, z, GetHashWithSalt(nonce, 3),
                    GetHashWithSalt(nonce, 4), <<SeedGamma0(nonce)>>),
        x, z, nonce)

RequestKinds ==
    {"point", "vector", "noVs", "twoVs", "noLs", "LsRs", "otherSeed", "emptySeed"}

\* the request of a kind, with the id of its position in the list
RequestOfKind(kind, id) ==
    LET good == ProvedRequest(id, PointSeed, 1, 1, 2, 1, 1)
    IN CASE kind = "point" -> good
         [] kind = "vector" -> ProvedRequest(id, VectorSeed, 1, 2, 1, 1, 1)
         [] kind = "noVs" -> [good EXCEPT !.Vs = <<>>]
         [] kind = "twoVs" -> [good EXCEPT !.Vs = good.Vs \o good.Vs]
         [] kind = "noLs" -> [good EXCEPT !.nLs = 0, !.nRs = 0]
         [] kind = "LsRs" -> [good EXCEPT !.nRs = 2]
         [] kind = "otherSeed" -> [good EXCEPT !.nonce = OtherPointSeed]
         [] kind = "emptySeed" -> [good EXCEPT !.nonce = EmptyVectorSeed]

RequestLists ==
    UNION {[1..n -> RequestKinds] : n \in 0..MaxRequests}

RcInit ==
    /\ \E kinds \in RequestLists :
          rcReqs = [i \in 1..Len(kinds) |-> RequestOfKind(kinds[i], i)]
    /\ rcc = "called"
    /\ rcOut = NoRecovery

\* lines 406-483: the call
RcCall ==
    /\ UNCHANGED notRc
    /\ rcc = "called"
    /\ rcOut' = RecoverAmounts(rcReqs)
    /\ rcc' = "returned"
    /\ UNCHANGED rcReqs

RcNext == RcCall

(***************************************************************************)
(* Claims about RecoverAmounts                                             *)
(***************************************************************************)
\* the requests the claim says are omitted
Omitted(req) ==
    \/ Len(req.Vs) # 1
    \/ req.nLs = 0
    \/ req.nLs # req.nRs
    \/ RecoverOne(req).kind = "skip"

RECURSIVE ExpectedResults(_, _)
\* one result for each request from i on that is not omitted, in request order
ExpectedResults(reqs, i) ==
    IF i > Len(reqs) THEN <<>>
    ELSE IF Omitted(reqs[i]) THEN ExpectedResults(reqs, i + 1)
    ELSE <<[id |-> reqs[i].id, amount |-> 1, gamma |-> RecoveredGamma(reqs[i]),
            message |-> RequestMessage]>> \o ExpectedResults(reqs, i + 1)

HasEmptySeed == \E i \in 1..Len(rcReqs) : rcReqs[i].nonce = EmptyVectorSeed

\* with no request whose vector seed is empty, the call returns, the flag is
\* true and the results are those of the requests that are not omitted
NonEmptySeedsRecovered ==
    (rcc = "returned" /\ ~HasEmptySeed)
        => /\ rcOut.outcome = "returned"
           /\ rcOut.is_completed
           /\ rcOut.xs = ExpectedResults(rcReqs, 1)

\* C12: RecoverAmounts never fails as a whole: it returns with the completion
\* flag true, a request with no or several value commitments, with no Ls, with
\* Ls and Rs of different length or whose decryption fails is omitted, and the
\* other requests have their one result each, in request order, with their id.
C12_NeverFailsAsAWhole ==
    rcc = "returned"
        => /\ rcOut.outcome = "returned"
           /\ rcOut.is_completed
           /\ rcOut.xs = ExpectedResults(rcReqs, 1)

(***************************************************************************)
(* Part 4: RangeProofLogic::VerifyProofs, one std::async task per proof    *)
(***************************************************************************)
\* what a task finds in its proof: the sizes of Ls and Rs agree (line 297), and
\* the verifier's equations (65)-(68) hold (lines 299-365)
ProofKinds ==
    { [sizesOk |-> TRUE, equationsOk |-> TRUE],
      [sizesOk |-> TRUE, equationsOk |-> FALSE],
      [sizesOk |-> FALSE, equationsOk |-> TRUE] }
Batches == UNION {[1..n -> ProofKinds] : n \in 0..MaxProofs}

\* lines 296-366: the value the task of proof p returns
TaskResult(p) == IF ~p.sizesOk THEN FALSE ELSE p.equationsOk

VpIdle ==
    /\ vbBatch = <<>>
    /\ vbc = "idle"
    /\ vbIdx = 0
    /\ vbTask = <<>>
    /\ vbRet = <<>>
    /\ vbPending = "none"
    /\ vbRes = "none"
    /\ vbOrder = <<>>
    /\ vbWaited = {}

\* a call of VerifyProofs(proof_transcripts, max_mn)
VpInit ==
    /\ vbBatch \in Batches
    /\ vbc = "launch"
    /\ vbIdx = 1
    /\ vbTask = [i \in 1..Len(vbBatch) |-> "none"]
    /\ vbRet = [i \in 1..Len(vbBatch) |-> "none"]
    /\ vbPending = "none"
    /\ vbRes = "none"
    /\ vbOrder = <<>>
    /\ vbWaited = {}

Unfinished == {i \in 1..Len(vbBatch) : vbTask[i] = "running"}

\* lines 294-367: the launching loop; after the last proof the collecting loop starts
VpLaunch ==
    /\ UNCHANGED notVp
    /\ vbc = "launch"
    /\ IF vbIdx <= Len(vbBatch)
       THEN /\ vbTask' = [vbTask EXCEPT ![vbIdx] = "running"]
            /\ vbIdx' = vbIdx + 1
            /\ UNCHANGED vbc
       ELSE /\ vbc' = "collect"
            /\ vbIdx' = 1
            /\ UNCHANGED vbTask
    /\ UNCHANGED <<vbBatch, vbRet, vbPending, vbRes, vbOrder, vbWaited>>

\* lines 296-366: the task of proof i runs to its end on its own thread
VpTaskEnds(i) ==
    /\ UNCHANGED notVp
    /\ i \in 1..Len(vbBatch)
    /\ vbTask[i] = "running"
    /\ vbTask' = [vbTask EXCEPT ![i] = "done"]
    /\ vbRet' = [vbRet EXCEPT ![i] = IF TaskResult(vbBatch[i]) THEN "true" ELSE "false"]
    /\ vbOrder' = Append(vbOrder, i)
    /\ UNCHANGED <<vbBatch, vbc, vbIdx, vbPending, vbRes, vbWaited>>

\* lines 369-373: fut.get() waits for the task; a false result is returned at
\* once, true is returned after the last future
VpGet ==
    /\ UNCHANGED notVp
    /\ vbc = "collect"
    /\ IF vbIdx > Len(vbBatch)
       THEN /\ vbPending' = "true"
            /\ vbc' = "return"
            /\ vbWaited' = Unfinished
            /\ UNCHANGED vbIdx
       ELSE /\ vbTask[vbIdx] = "done"
            /\ IF vbRet[vbIdx] = "false"
               THEN /\ vbPending' = "false"
                    /\ vbc' = "return"
                    /\ vbWaited' = Unfinished
                    /\ UNCHANGED vbIdx
               ELSE /\ vbIdx' = vbIdx + 1
                    /\ UNCHANGED <<vbPending, vbc, vbWaited>>
    /\ UNCHANGED <<vbBatch, vbTask, vbRet, vbRes, vbOrder>>

FuturesDestroyedAtOnce == TRUE

\* leaving VerifyProofs destroys `futures`: the destructor of a future made by
\* std::async(std::launch::async, ...) blocks until its task has finished
FuturesDestroyed == Unfinished = {}

\* lines 370 and 373: the return
VpReturn ==
    /\ UNCHANGED notVp
    /\ vbc = "return"
    /\ FuturesDestroyed
    /\ vbRes' = vbPending
    /\ vbc' = "returned"
    /\ UNCHANGED <<vbBatch, vbIdx, vbTask, vbRet, vbPending, vbOrder, vbWaited>>

(***************************************************************************)
(* Claims about VerifyProofs                                               *)
(***************************************************************************)
\* C10: VerifyProofs runs one task per proof and returns true if and only if
\* every task returns true, whatever the order the tasks complete in; it returns
\* only after every launched task has finished; until it returns no result is
\* given.
C10_AllTasksAndTheirConjunction ==
    /\ vbc = "returned" =>
          /\ vbRes = (IF \A i \in 1..Len(vbBatch) : TaskResult(vbBatch[i])
                      THEN "true" ELSE "false")
          /\ \A i \in 1..Len(vbBatch) : vbTask[i] = "done"
          /\ Len(vbOrder) = Len(vbBatch)
          /\ \A i \in 1..Len(vbBatch) : \E k \in 1..Len(vbOrder) : vbOrder[k] = i
    /\ vbc # "returned" => vbRes = "none"
    /\ \A i \in 1..Len(vbBatch) :
          vbTask[i] = "done" => vbRet[i] = (IF TaskResult(vbBatch[i]) THEN "true" ELSE "false")

\* a batch of three whose first proof is bad: false was decided while later
\* tasks were still running, and the tasks completed out of launch order
C10_Witness ==
    /\ vbc = "returned"
    /\ vbRes = "false"
    /\ Len(vbBatch) = 3
    /\ ~TaskResult(vbBatch[1])
    /\ vbWaited # {}
    /\ vbOrder = <<1, 3, 2>>

VpNext ==
    \/ VpLaunch
    \/ \E i \in 1..MaxProofs : VpTaskEnds(i)
    \/ VpGet
    \/ VpReturn

(***************************************************************************)
(* Part 6: TxFactoryBase::CreateTransaction                                *)
(***************************************************************************)
CandidateAmounts == {2, 8}
RequestedAmounts == {1, 2, 4}
MinStakes == {3}

\* the inputCandidates of a call: amount and is_staked_commitment, all of the
\* base token
InputCandidateLists ==
    UNION {[1..n -> [amount : CandidateAmounts, is_staked_commitment : BOOLEAN]] :
               n \in 0..MaxCandidates}

CreateTransactionCalls ==
    [inputCandidates : InputCandidateLists,
     nAmount : RequestedAmounts,
     type : TxTypes,
     minStake : MinStakes]

NoCreateCall == [inputCandidates |-> <<>>, nAmount |-> 0, type |-> "NORMAL", minStake |-> 0]
NoOutcome == [kind |-> "none", what |-> "", arg |-> 0]

CtIdle ==
    /\ ctIn = NoCreateCall
    /\ ctc = "idle"
    /\ ctOut = NoOutcome

CtInit ==
    /\ ctIn \in CreateTransactionCalls
    /\ ctc = "called"
    /\ ctOut = NoOutcome

\* line 155: auto tx = blsct::TxFactoryBase()
NewFactory ==
    [nAmounts |-> [t \in Tokens |-> [has |-> FALSE, nFromOutputs |-> 0, nFromInputs |-> 0]],
     vInputs |-> [t \in Tokens |-> <<>>],
     vOutputs |-> [t \in Tokens |-> <<>>]]

\* tx.AddInput(amount, ..., token_id, ..., stakedCommitment) on the factory f
FactoryAddInput(f, amount, token_id, stakedCommitment) ==
    [f EXCEPT
        !.vInputs[token_id] = Append(@, [token |-> token_id, value |-> amount,
                                         is_staked_commitment |-> stakedCommitment]),
        !.nAmounts[token_id] = [has |-> TRUE, nFromOutputs |-> @.nFromOutputs,
                                nFromInputs |-> @.nFromInputs + amount]]

\* tx.AddOutput(destination, nAmount, ..., token_id, type, minStake, false) on f
FactoryAddOutput(f, token_id, nAmount, type) ==
    [f EXCEPT
        !.vOutputs[token_id] = Append(@, [kind |-> "out", token |-> token_id,
                                          value |-> nAmount,
                                          staked |-> (type = "STAKED_COMMITMENT")]),
        !.nAmounts[token_id] = [has |-> TRUE, nFromOutputs |-> @.nFromOutputs + nAmount,
                                nFromInputs |-> @.nFromInputs]]

RECURSIVE InputFromStakedCommitments(_, _, _)
\* lines 158-163 and 175-182: the sum of the staked candidates up to candidate i
InputFromStakedCommitments(cands, i, type) ==
    IF i = 0 THEN 0
    ELSE InputFromStakedCommitments(cands, i - 1, type)
         + (IF cands[i].is_staked_commitment /\ IsStakingType(type)
            THEN cands[i].amount ELSE 0)

RECURSIVE AddCandidates(_, _, _, _)
\* lines 160-165 and 177-185: the factory after the loop over the candidates up
\* to candidate i; a staked candidate is passed over unless the type is a
\* staking one
AddCandidates(f, cands, i, type) ==
    IF i = 0 THEN f
    ELSE LET g == AddCandidates(f, cands, i - 1, type)
         IN IF cands[i].is_staked_commitment /\ ~IsStakingType(type)
            THEN g
            ELSE FactoryAddInput(g, cands[i].amount, BaseToken,
                                 cands[i].is_staked_commitment)

MinimumStakeMessage(minStake) ==
    [kind |-> "thrown", what |-> "A minimum of %s is required to stake", arg |-> minStake]
NotEnoughStakedMessage ==
    [kind |-> "thrown", what |-> "Not enough staked coins", arg |-> 0]
NotThrown == [kind |-> "none", what |-> "", arg |-> 0]

UnstakeThrownNoMinimum(staked, nAmount, minStake) ==
    IF staked - nAmount < 0 THEN NotEnoughStakedMessage
    ELSE NotThrown

\* lines 167-169
StakeThrown(staked, nAmount, minStake) ==
    IF nAmount + staked < minStake THEN MinimumStakeMessage(minStake)
    ELSE NotThrown

\* lines 188-192
UnstakeThrown(staked, nAmount, minStake) ==
    IF staked - nAmount < 0 THEN NotEnoughStakedMessage
    ELSE IF staked - nAmount < minStake /\ staked - nAmount > 0
    THEN MinimumStakeMessage(minStake)
    ELSE NotThrown

\* lines 157-203: what CreateTransaction throws before it calls BuildTx, if
\* anything
ThrownBeforeBuild(call) ==
    LET staked == InputFromStakedCommitments(call.inputCandidates,
                                             Len(call.inputCandidates), call.type)
    IN IF call.type = "STAKED_COMMITMENT"
       THEN StakeThrown(staked, call.nAmount, call.minStake)
       ELSE IF call.type = "STAKED_COMMITMENT_UNSTAKE"
       THEN UnstakeThrown(staked, call.nAmount, call.minStake)
       ELSE NotThrown

\* lines 155-203: the factory at the call of BuildTx
FactoryBeforeBuild(call) ==
    LET cands == call.inputCandidates
        staked == InputFromStakedCommitments(cands, Len(cands), call.type)
        f == AddCandidates(NewFactory, cands, Len(cands), call.type)
    IN IF call.type = "STAKED_COMMITMENT"
       THEN FactoryAddOutput(f, BaseToken, call.nAmount + staked, call.type)
       ELSE LET g == IF call.type = "STAKED_COMMITMENT_UNSTAKE" /\ staked - call.nAmount > 0
                     THEN FactoryAddOutput(f, BaseToken, staked - call.nAmount,
                                           "STAKED_COMMITMENT")
                     ELSE f
            IN FactoryAddOutput(g, BaseToken, call.nAmount, call.type)

\* lines 153-205 and 55-71: CreateTransaction up to the while loop of BuildTx,
\* or up to the exception it throws
CreateTransactionStart ==
    /\ UNCHANGED notCt
    /\ ctc = "called"
    /\ bpc = "idle"
    /\ IF ThrownBeforeBuild(ctIn).kind = "thrown"
       THEN /\ ctc' = "thrown"
            /\ ctOut' = ThrownBeforeBuild(ctIn)
            /\ UNCHANGED txVars
       ELSE LET f == FactoryBeforeBuild(ctIn)
            IN /\ nAmounts' = f.nAmounts
               /\ vInputs' = f.vInputs
               /\ vOutputs' = f.vOutputs
               /\ bpc' = "loop"
               /\ btype' = ctIn.type
               /\ thisTx' = [vin |-> <<>>, vout |-> f.vOutputs[0] \o f.vOutputs[1]]
               /\ nFee' = 0
               /\ feesTried' = {}
               /\ result' = NoResult
               /\ ctc' = "building"
               /\ UNCHANGED <<ctOut, prevBuilt>>
    /\ UNCHANGED ctIn

\* line 205: return tx.BuildTx(...)
CreateTransactionReturn ==
    /\ UNCHANGED notCt
    /\ ctc = "building"
    /\ bpc = "done"
    /\ ctc' = "returned"
    /\ ctOut' = IF result.ok THEN [kind |-> "transaction", what |-> "", arg |-> 0]
                ELSE [kind |-> "nullopt", what |-> "", arg |-> 0]
    /\ UNCHANGED <<txVars, ctIn>>

CtNext ==
    \/ CreateTransactionStart
    \/ BuildTxIterate
    \/ CreateTransactionReturn

(***************************************************************************)
(* Claims about CreateTransaction                                          *)
(***************************************************************************)
\* the value of the staked-commitment candidates of the call
StakedValue ==
    InputFromStakedCommitments(ctIn.inputCandidates, Len(ctIn.inputCandidates),
                               "STAKED_COMMITMENT")

CtStarted == ctc \in {"building", "returned", "thrown"}
CtProceeded == ctc \in {"building", "returned"}

StakedOutput(v) == [kind |-> "out", token |-> BaseToken, value |-> v, staked |-> TRUE]
PlainOutput(v) == [kind |-> "out", token |-> BaseToken, value |-> v, staked |-> FALSE]

\* C13: CreateTransaction enforces the staking rules. With type
\* STAKED_COMMITMENT it fails with "A minimum of X is required to stake" when
\* nAmount plus the staked candidates is below minStake. With type
\* STAKED_COMMITMENT_UNSTAKE it fails with "Not enough staked coins" when
\* nAmount exceeds the staked value, fails with the minimum-stake message when
\* the remainder is strictly between 0 and minStake, and proceeds when the
\* remainder is 0 or at least minStake, a nonzero remainder being queued as a
\* staked-commitment output before the output of nAmount.
C13_StakingRules ==
    CtStarted =>
        LET remainder == StakedValue - ctIn.nAmount
        IN /\ (ctIn.type = "STAKED_COMMITMENT" /\ ctIn.nAmount + StakedValue < ctIn.minStake)
                => ctOut = MinimumStakeMessage(ctIn.minStake)
           /\ (ctIn.type = "STAKED_COMMITMENT_UNSTAKE" /\ ctIn.nAmount > StakedValue)
                => ctOut = NotEnoughStakedMessage
           /\ (ctIn.type = "STAKED_COMMITMENT_UNSTAKE" /\ remainder > 0
                                                      /\ remainder < ctIn.minStake)
                => ctOut = MinimumStakeMessage(ctIn.minStake)
           /\ (ctIn.type = "STAKED_COMMITMENT_UNSTAKE" /\ remainder = 0)
                => /\ CtProceeded
                   /\ vOutputs[BaseToken] = <<PlainOutput(ctIn.nAmount)>>
           /\ (ctIn.type = "STAKED_COMMITMENT_UNSTAKE" /\ remainder >= ctIn.minStake)
                => /\ CtProceeded
                   /\ vOutputs[BaseToken]
                        = <<StakedOutput(remainder), PlainOutput(ctIn.nAmount)>>

\* a partial unstake that leaves at least the minimum staked went through
C13_Witness ==
    /\ ctc = "returned"
    /\ ctIn.type = "STAKED_COMMITMENT_UNSTAKE"
    /\ StakedValue - ctIn.nAmount >= ctIn.minStake
    /\ ctOut.kind = "transaction"
    /\ \E i \in 1..Len(result.vout) : result.vout[i] = StakedOutput(StakedValue - ctIn.nAmount)

\* the call fails for lack of funds: a stake below the minimum, a withdrawal of
\* more than the staked value, or inputs that do not cover outputs and fee
FundsFailure ==
    \/ ctc = "thrown"
    \/ ctc = "returned" /\ ~result.ok

\* C14: every funds failure of the construction (insufficient input value,
\* stake below the minimum, withdrawal of more than the staked value) is the
\* no-transaction outcome of CreateTransaction, an empty optional, and never
\* an exception.
C14_FundsFailureIsNullopt ==
    FundsFailure => ctOut.kind = "nullopt"

\* insufficient input value alone is the empty optional
InsufficientInputIsNullopt ==
    (ctc = "returned" /\ ~result.ok) => ctOut.kind = "nullopt"

(***************************************************************************)
(* Part 7: SetMemProofProver (ExtendYs, Prove, Verify)                     *)
(***************************************************************************)
\* the points of a list: Point::MapToPoint of a name, a Pedersen commitment
\* G*value + H*blindingFactor, or a dummy element ExtendYs derives
MapToPoint(name) == [kind |-> "mapped", a |-> name, b |-> 0]
PedersenCommit(value, blindingFactor) == [kind |-> "commit", a |-> value, b |-> blindingFactor]
DummyPoint(i) == [kind |-> "dummy", a |-> i, b |-> 0]

ListPoints == {MapToPoint(1), MapToPoint(2), PedersenCommit(1, 1)}
Lists(n) == UNION {[1..k -> ListPoints] : k \in 0..n}
\* the sizes ExtendYs is asked for: powers of two
TargetSizes == {1, 2, 4}

ExtendYsSameDummy(ys, n) ==
    IF n < Len(ys) THEN [ok |-> FALSE, ys |-> <<>>]
    ELSE [ok |-> TRUE, ys |-> [i \in 1..n |-> IF i <= Len(ys) THEN ys[i] ELSE DummyPoint(0)]]

\* ExtendYs(setup, ys, n): ys followed by dummy elements up to n elements, an
\* error when ys has more than n
ExtendYs(ys, n) ==
    IF n < Len(ys) THEN [ok |-> FALSE, ys |-> <<>>]
    ELSE [ok |-> TRUE, ys |-> [i \in 1..n |-> IF i <= Len(ys) THEN ys[i] ELSE DummyPoint(i)]]

ExIdle ==
    /\ exIn = [ys |-> <<>>, n |-> 0]
    /\ exc = "idle"
    /\ exOut = [ok |-> FALSE, ys |-> <<>>]

ExInit ==
    /\ exIn \in [ys : Lists(MaxYs), n : TargetSizes]
    /\ exc = "called"
    /\ exOut = [ok |-> FALSE, ys |-> <<>>]

\* a call of ExtendYs
ExtendYsCall ==
    /\ UNCHANGED notEx
    /\ exc = "called"
    /\ exOut' = ExtendYs(exIn.ys, exIn.n)
    /\ exc' = IF exOut'.ok THEN "returned" ELSE "thrown"
    /\ UNCHANGED exIn

ExNext == ExtendYsCall

Sigma == PedersenCommit(1, 1)
OtherPoint == MapToPoint(3)
EtaFiatShamirs == {123, 456}
EtaPhi == <<1, 2, 3>>
ProveLists == {ys \in Lists(SetupN) : \E i \in 1..Len(ys) : ys[i] = Sigma}

\* the lists given to Verify for a list given to Prove: the same list, sigma
\* replaced by another element, sigma exchanged with the element at another
\* index, and the other elements replaced with sigma where it was
VerifyLists(ys) ==
    {ys}
    \cup {[ys EXCEPT ![i] = OtherPoint] : i \in {k \in 1..Len(ys) : ys[k] = Sigma}}
    \cup {[ys EXCEPT ![i] = ys[j], ![j] = ys[i]] :
              i \in {k \in 1..Len(ys) : ys[k] = Sigma}, j \in 1..Len(ys)}
    \cup {[i \in 1..Len(ys) |-> IF ys[i] = Sigma THEN Sigma ELSE OtherPoint]}

NoSetMemProof == [transcript |-> <<>>, index |-> 0, opening |-> OtherPoint]

\* what the challenges of a proof are hashes of: the list extended to a power
\* of two, etaFiatShamir and etaPhi
SetMemTranscript(Ys, eta_fiat_shamir, eta_phi) ==
    <<ExtendYs(Ys, GetFirstPowerOf2GreaterOrEqTo(Len(Ys))).ys, eta_fiat_shamir, eta_phi>>

\* Prove(setup, Ys, sigma, value, blindingFactor, etaFiatShamir, etaPhi): the
\* proof binds the extended list and the two eta, and marks the first index
\* sigma is at, with the opening of the commitment at that index
SetMemProve(Ys, sigma, value, blindingFactor, eta_fiat_shamir, eta_phi) ==
    [transcript |-> SetMemTranscript(Ys, eta_fiat_shamir, eta_phi),
     index |-> IF \E i \in 1..Len(Ys) : Ys[i] = sigma
               THEN CHOOSE i \in 1..Len(Ys) :
                        Ys[i] = sigma /\ \A j \in 1..(i - 1) : Ys[j] # sigma
               ELSE 0,
     opening |-> PedersenCommit(value, blindingFactor)]

SetMemVerifyNoExtend(Ys, eta_fiat_shamir, eta_phi, p) ==
    /\ p.transcript = <<Ys, eta_fiat_shamir, eta_phi>>
    /\ p.index \in 1..Len(Ys)
    /\ Ys[p.index] = p.opening

SetMemVerifyNoEta(Ys, eta_fiat_shamir, eta_phi, p) ==
    /\ p.transcript[1] = SetMemTranscript(Ys, eta_fiat_shamir, eta_phi)[1]
    /\ p.index \in 1..Len(Ys)
    /\ Ys[p.index] = p.opening

\* Verify(setup, Ys, etaFiatShamir, etaPhi, proof): the challenges recomputed
\* from the arguments are those of the proof, and the element of the list at
\* the index the proof marks is the commitment the proof opens
SetMemVerify(Ys, eta_fiat_shamir, eta_phi, p) ==
    /\ p.transcript = SetMemTranscript(Ys, eta_fiat_shamir, eta_phi)
    /\ p.index \in 1..Len(Ys)
    /\ Ys[p.index] = p.opening

NoSetMemCall == [proveYs |-> <<>>, verifyYs |-> <<>>, etaProve |-> 0, etaVerify |-> 0]

SmIdle ==
    /\ smIn = NoSetMemCall
    /\ smc = "idle"
    /\ smProof = NoSetMemProof
    /\ smRes = "none"

SmInit ==
    /\ \E ys \in ProveLists :
          smIn \in [proveYs : {ys}, verifyYs : VerifyLists(ys),
                    etaProve : EtaFiatShamirs, etaVerify : EtaFiatShamirs]
    /\ smc = "called"
    /\ smProof = NoSetMemProof
    /\ smRes = "none"

\* Prover::Prove(setup, Ys, sigma, m, f, eta_fiat_shamir, eta_phi)
SmProve ==
    /\ UNCHANGED notSm
    /\ smc = "called"
    /\ smProof' = SetMemProve(smIn.proveYs, Sigma, 1, 1, smIn.etaProve, EtaPhi)
    /\ smc' = "proved"
    /\ UNCHANGED <<smIn, smRes>>

\* Prover::Verify(setup, Ys, eta_fiat_shamir, eta_phi, proof)
SmVerify ==
    /\ UNCHANGED notSm
    /\ smc = "proved"
    /\ smRes' = IF SetMemVerify(smIn.verifyYs, smIn.etaVerify, EtaPhi, smProof)
                THEN "true" ELSE "false"
    /\ smc' = "verified"
    /\ UNCHANGED <<smIn, smProof>>

SmNext ==
    \/ SmProve
    \/ SmVerify

SameContext == smIn.verifyYs = smIn.proveYs /\ smIn.etaVerify = smIn.etaProve

InputGamma(k) == 10 * k
OutputGamma(j) == j

RECURSIVE SumGammas(_, _)
SumGammas(n, kind) ==
    IF n = 0 THEN 0
    ELSE SumGammas(n - 1, kind) + (IF kind = "in" THEN InputGamma(n) ELSE OutputGamma(n))

\* txfactory_base.cpp lines 68, 87, 105 and 131: gammaAcc when the balance
\* message is signed; the fee marker, the last output, has no blinding factor
GammaAcc(r) ==
    (0 - SumGammas(Len(thisTx.vout), "out"))
    + SumGammas(Len(r.vin), "in")
    - (SumGammas(Len(r.vout) - 1, "out") - SumGammas(Len(thisTx.vout), "out"))

\* the transaction as VerifyTx meets it: the coins of its inputs are in the
\* view with the commitments of their values, its confidential outputs carry
\* the commitments and the proofs CreateOutput made, the signatures of the
\* inputs and outputs are good
BuiltTransaction(r) ==
    [isCoinBase |-> FALSE,
     haveInputs |-> TRUE,
     blockReward |-> 0,
     vin |-> [k \in 1..Len(r.vin) |->
                 [coinOk |-> TRUE,
                  Vs0 |-> Commitment(r.vin[k].token, r.vin[k].value, InputGamma(k))]],
     vout |-> [j \in 1..Len(r.vout) |->
                 LET o == r.vout[j]
                 IN IF o.kind = "fee"
                    THEN [TxOut(FALSE, "none", TRUE, FALSE, TRUE, o.value, TRUE, FALSE, TRUE)
                             EXCEPT !.tokenId = o.token]
                         @@ [Vs0 |-> ZeroPoint]
                    ELSE [TxOut(TRUE, "none", TRUE, FALSE, FALSE, 0, TRUE, o.staked,
                                o.value >= VerifyMinStake)
                             EXCEPT !.tokenId = o.token]
                         @@ [Vs0 |-> Commitment(o.token, o.value, OutputGamma(j))]],
     sigOk |-> TRUE,
     built |-> TRUE,
     gammaAcc |-> GammaAcc(r)]

\* VerifyTx is called on the transaction BuildTx returned
SubmitBuilt ==
    /\ Returned
    /\ vpc = "idle"
    /\ vtx' = BuiltTransaction(result)
    /\ vpc' = "start"
    /\ UNCHANGED <<vidx, vPairs, vProofs, balanceKey, vnFee, vreasons, vres, vlog>>
    /\ UNCHANGED <<txVars, rpVars, vbVars, rcVars, ctVars, smVars>>

\* the factory filled directly (outputs at their full amount) or through
\* CreateTransaction, one BuildTx, and VerifyTx on what was built
WalletNext ==
    \/ /\ ctc = "idle" /\ vpc = "idle"
       /\ \/ \E t \in Tokens, a \in OutputAmounts : AddOutput(t, a, "NORMAL", FALSE)
          \/ \E a \in InputValues, t \in Tokens, s \in BOOLEAN : AddInput(a, t, s)
          \/ \E ty \in TxTypes : BuildTxStart(ty)
    \/ (vpc = "idle" /\ (CreateTransactionStart \/ BuildTxIterate \/ CreateTransactionReturn))
    \/ SubmitBuilt
    \/ VerifyNext

\* VerifyTx has folded every input and output of a built transaction
BalanceFolded ==
    /\ vtx.built
    /\ \E k \in 1..Len(vlog) : vlog[k].ev = "VerifyBatch"

\* C28: for every transaction returned by BuildTx (no block reward, no
\* predicates) the balance key VerifyTx accumulates from the spent outputs'
\* commitments, the new outputs' commitments and the transparent fee has a zero
\* value component for every token, and its blinding component is the
\* blinding-factor total with which BuildTx signed the balance message.
C28_BuilderVerifierAgree ==
    BalanceFolded =>
        /\ \A t \in Tokens : balanceKey[<<"G", t>>] = 0
        /\ balanceKey[<<"H">>] = vtx.gammaAcc
        /\ balanceKey = Commitment(BaseToken, 0, vtx.gammaAcc)

\* what holds: the two agree whenever the base token is in the accumulator,
\* and VerifyTx then accepts the transaction
AgreeWhenBaseTokenTouched ==
    (BalanceFolded /\ nAmounts[BaseToken].has) =>
        /\ balanceKey = Commitment(BaseToken, 0, vtx.gammaAcc)
        /\ VDone => Accepted

\* the blinding components agree in every case
BlindingAgrees ==
    BalanceFolded => balanceKey[<<"H">>] = vtx.gammaAcc

vars == <<txVars, verifyVars, rpVars, vbVars, rcVars, ctVars, smVars>>

Init == TxInit /\ VerifyIdle /\ RpIdle /\ VpIdle /\ RcIdle /\ CtIdle /\ ExIdle /\ SmIdle

\* the transaction factory
Spec == Init /\ [][TxNext]_vars

\* one run of VerifyTx on any transaction
InitVerifyTx == TxInit /\ VerifyInit /\ RpIdle /\ VpIdle /\ RcIdle /\ CtIdle /\ ExIdle /\ SmIdle

SpecVerifyTx == InitVerifyTx /\ [][VerifyNext]_vars

\* one call of Prove and Verify on what it returned
InitRangeProof == TxInit /\ VerifyIdle /\ RpInit /\ VpIdle /\ RcIdle /\ CtIdle /\ ExIdle /\ SmIdle

SpecRangeProof == InitRangeProof /\ [][RpNext]_vars

\* one call of VerifyProofs on any batch
InitVerifyProofs == TxInit /\ VerifyIdle /\ RpIdle /\ VpInit /\ RcIdle /\ CtIdle /\ ExIdle /\ SmIdle

SpecVerifyProofs == InitVerifyProofs /\ [][VpNext]_vars

InitRecoverAmounts == TxInit /\ VerifyIdle /\ RpIdle /\ VpIdle /\ RcInit /\ CtIdle /\ ExIdle /\ SmIdle

SpecRecoverAmounts == InitRecoverAmounts /\ [][RcNext]_vars

InitCreateTransaction == TxInit /\ VerifyIdle /\ RpIdle /\ VpIdle /\ RcIdle /\ CtInit /\ ExIdle /\ SmIdle

SpecCreateTransaction == InitCreateTransaction /\ [][CtNext]_vars

InitExtendYs ==
    TxInit /\ VerifyIdle /\ RpIdle /\ VpIdle /\ RcIdle /\ CtIdle /\ ExInit /\ SmIdle

SpecExtendYs == InitExtendYs /\ [][ExNext]_vars

InitSetMem ==
    TxInit /\ VerifyIdle /\ RpIdle /\ VpIdle /\ RcIdle /\ CtIdle /\ ExIdle /\ SmInit

SpecSetMem == InitSetMem /\ [][SmNext]_vars

\* the wallet: the factory, CreateTransaction, and VerifyTx on what they built
InitWallet ==
    TxInit /\ VerifyIdle /\ RpIdle /\ VpIdle /\ RcIdle /\ (CtIdle \/ CtInit) /\ ExIdle /\ SmIdle

SpecWallet == InitWallet /\ [][WalletNext]_vars

====
